---- MODULE Spec2Model ----
(***************************************************************************)
(* State-machine model of the arithmetic local-search plugin               *)
(* sls::arith_base<num_t> (src/src/ast/sls/sls_arith_base.cpp).            *)
(*                                                                         *)
(* num_t is modelled by the integers: this is the instantiation            *)
(* arith_base<checked_int64<true>> (sls_arith_base.cpp:1746) away from     *)
(* overflow.  Variables of sort REAL still exist in that instantiation;    *)
(* their values are numbers of the same type.                              *)
(*                                                                         *)
(* The controller (sls::context) is modelled by the formula it hands to    *)
(* the plugin (an expression table, the atom of every Boolean variable,    *)
(* the unit literals), its truth table `truth`, and the calls it makes.    *)
(***************************************************************************)
EXTENDS Integers, Sequences, FiniteSets, TLC

\* ------------------------------------------------------------------ bounds

\* values of variables explored: -MaxVal .. MaxVal
MaxVal == 2
\* the random draw of dtt_reward is k / RandGrid for k in 0 .. RandGrid
RandGrid == 2
\* calls of update nested deeper than this count as not returning
MaxDepth == 8

\* ------------------------------------------------------------- numerals

UINT_MAX == 0

abs(n) == IF n < 0 THEN -n ELSE n

\* truncating integer division, 0 for a zero divisor is decided by callers
div(a, b) ==
    IF b = 0 THEN 0
    ELSE IF (a >= 0) = (b > 0) THEN abs(a) \div abs(b)
    ELSE -(abs(a) \div abs(b))

\* non-negative remainder
mod(a, b) == IF b = 0 THEN 0 ELSE a % abs(b)

\* operator/ of the numeric type
quot(a, b) == div(a, b)

\* operator%= of the numeric type: remainder with the sign of the dividend
rem(a, b) == a - b * div(a, b)

divides(a, b) == IF a = 0 THEN b = 0 ELSE b % abs(a) = 0

\* --------------------------------------------------- the controller's formula

Ex(k, a, n, isint) == [k |-> k, a |-> a, n |-> n, int |-> isint]

\* The expressions the controller knows.  k: kind; a: arguments; n: the value
\* of a numeral; int: the sort is Int (else Real; for atoms: unused).
ExprTab == <<
    Ex("const", <<>>, 0, TRUE),          \*  1: x
    Ex("const", <<>>, 0, TRUE),          \*  2: y
    Ex("num",   <<>>, 1, TRUE),          \*  3: 1
    Ex("add",   <<1, 1>>, 0, TRUE),      \*  4: x + x
    Ex("le",    <<4, 2>>, 0, TRUE),      \*  5: x + x <= y
    Ex("ge",    <<1, 3>>, 0, TRUE),      \*  6: x >= 1
    Ex("add",   <<1, 2>>, 0, TRUE),      \*  7: x + y
    Ex("app",   <<7>>, 0, TRUE),         \*  8: f(x + y)
    Ex("mul",   <<1, 2>>, 0, TRUE),      \*  9: x * y
    Ex("num",   <<>>, 2, TRUE),          \* 10: 2
    Ex("le",    <<9, 3>>, 0, TRUE),      \* 11: x * y <= 1
    Ex("eq",    <<1, 2>>, 0, TRUE),      \* 12: x = y
    Ex("mod",   <<1, 2>>, 0, TRUE),      \* 13: x mod y
    Ex("idiv",  <<1, 2>>, 0, TRUE),      \* 14: x div y
    Ex("const", <<>>, 0, FALSE),         \* 15: u (Real)
    Ex("const", <<>>, 0, FALSE),         \* 16: w (Real)
    Ex("div",   <<15, 16>>, 0, FALSE),   \* 17: u / w
    Ex("rem",   <<1, 2>>, 0, TRUE),      \* 18: x rem y
    Ex("abs",   <<1>>, 0, TRUE),         \* 19: abs(x)
    Ex("app",   <<13>>, 0, TRUE),        \* 20: f(x mod y)
    Ex("app",   <<14>>, 0, TRUE),        \* 21: f(x div y)
    Ex("app",   <<17>>, 0, TRUE),        \* 22: f(u / w)
    Ex("app",   <<18>>, 0, TRUE),        \* 23: f(x rem y)
    Ex("app",   <<19>>, 0, TRUE),        \* 24: f(abs(x))
    Ex("eq",    <<9, 3>>, 0, TRUE),      \* 25: x * y = 1
    Ex("num",   <<>>, 1, FALSE),         \* 26: 1.0
    Ex("le",    <<15, 26>>, 0, FALSE),   \* 27: u <= 1.0
    Ex("lt",    <<16, 26>>, 0, FALSE),   \* 28: w < 1.0
    Ex("mul",   <<10, 1, 1>>, 0, TRUE),  \* 29: 2 * x * x
    Ex("app",   <<29>>, 0, TRUE),        \* 30: f(2 * x * x)
    Ex("mul",   <<10, 1, 2>>, 0, TRUE),  \* 31: 2 * x * y
    Ex("app",   <<31>>, 0, TRUE),        \* 32: f(2 * x * y)
    Ex("num",   <<>>, 3, TRUE),          \* 33: 3
    Ex("mul",   <<10, 1>>, 0, TRUE),     \* 34: 2 * x
    Ex("mul",   <<33, 2>>, 0, TRUE),     \* 35: 3 * y
    Ex("add",   <<34, 35>>, 0, TRUE),    \* 36: 2 * x + 3 * y
    Ex("num",   <<>>, 7, TRUE),          \* 37: 7
    Ex("eq",    <<36, 37>>, 0, TRUE),    \* 38: 2 * x + 3 * y = 7
    Ex("lt",    <<1, 3>>, 0, TRUE),      \* 39: x < 1
    Ex("app",   <<9>>, 0, TRUE),         \* 40: f(x * y)
    Ex("ge",    <<1, 10>>, 0, TRUE),     \* 41: x >= 2
    Ex("lt",    <<1, 10>>, 0, TRUE),     \* 42: x < 2
    Ex("eq",    <<1, 3>>, 0, TRUE)       \* 43: x = 1
>>

Lit(bv, sign) == [var |-> bv, sign |-> sign]

Pr(atoms, units, terms, values) ==
    [atoms |-> atoms, units |-> units, terms |-> terms, values |-> values]

\* The formulas the controller may hold.  atoms: the atom of each Boolean
\* variable; units: its unit literals; terms: the terms it registers;
\* values: the terms it assigns with set_value.
Problems == <<
    Pr(<<5, 6>>, <<Lit(2, FALSE)>>, <<5, 6>>, <<1, 2>>),
    Pr(<<>>,     <<>>,              <<8>>,    <<1, 2, 7>>),
    Pr(<<11>>,   <<Lit(1, FALSE)>>, <<11>>,   <<1, 2, 9>>),
    Pr(<<12>>,   <<>>,              <<12>>,   <<1, 2>>),
    Pr(<<>>,     <<>>,              <<20>>,   <<1, 2, 13>>),
    Pr(<<>>,     <<>>,              <<21>>,   <<1, 2, 14>>),
    Pr(<<>>,     <<>>,              <<22>>,   <<15, 16, 17>>),
    Pr(<<>>,     <<>>,              <<23>>,   <<1, 2, 18>>),
    Pr(<<>>,     <<>>,              <<24>>,   <<1, 19>>),
    Pr(<<25>>,   <<Lit(1, FALSE)>>, <<25>>,   <<1, 2>>),
    Pr(<<27, 28>>, <<Lit(1, FALSE), Lit(2, FALSE)>>, <<27, 28>>, <<15, 16>>),
    Pr(<<>>,     <<>>,              <<30>>,   <<29>>),
    Pr(<<>>,     <<>>,              <<32>>,   <<31>>),
    Pr(<<38>>,   <<>>,              <<38>>,   <<>>),
    Pr(<<39, 12>>, <<Lit(1, FALSE)>>, <<39, 12>>, <<>>),
    Pr(<<12, 6>>, <<Lit(2, FALSE)>>, <<12, 6, 40>>, <<>>),
    Pr(<<41, 42>>, <<Lit(1, FALSE), Lit(2, FALSE)>>, <<41, 42>>, <<>>),
    Pr(<<43, 12>>, <<Lit(1, FALSE)>>, <<43, 12>>, <<>>),
    Pr(<<11>>, <<>>, <<40, 11>>, <<9>>)
>>

\* ------------------------------------------------------------------ state

VARIABLES
    problem,        \* the formula the controller holds (index into Problems)
    m_vars,         \* vector<var_info>
    m_bool_vars,    \* per Boolean variable: <<>> (no atom) or <<ineq>>
    m_muls,         \* vector<mul_def>
    m_adds,         \* vector<add_def>
    m_ops,          \* vector<op_def>
    m_expr2var,     \* expression id -> variable (UINT_MAX: none)
    m_dscore_mode,
    truth,          \* the controller's truth value of each Boolean variable
    status,         \* "run"; "diverged": a call does not return; "aborted"
    call            \* a call of dtt, factor or sqrt on its own: its
                    \* arguments, position and result (NoCall: none)

vars == <<problem, m_vars, m_bool_vars, m_muls, m_adds, m_ops, m_expr2var,
          m_dscore_mode, truth, status, call>>

NoCall == [fn |-> "none"]

\* The engine and the controller's truth table as one value; flips and eh
\* collect the ctx.flip and ctx.new_value_eh calls of the running call.
Cur ==
    [m_vars |-> m_vars, m_bool_vars |-> m_bool_vars, m_muls |-> m_muls,
     m_adds |-> m_adds, m_ops |-> m_ops, m_expr2var |-> m_expr2var,
     m_dscore_mode |-> m_dscore_mode, truth |-> truth, status |-> status,
     flips |-> <<>>, eh |-> <<>>]

var_info(e, k) ==
    [m_expr |-> e, m_value |-> 0, m_sort |-> k, m_op |-> "LAST_ARITH_OP",
     m_def_idx |-> UINT_MAX, m_bool_vars |-> <<>>, m_muls |-> <<>>,
     m_adds |-> <<>>, m_lo |-> <<>>, m_hi |-> <<>>]

value(S, v) == S.m_vars[v].m_value

\* is_int with a fault: no variable counts as an integer
is_int_never(S, v) == FALSE

is_int(S, v) == S.m_vars[v].m_sort = "INT"

atom(S, bv) == S.m_bool_vars[bv]

\* sign(bv) == !ctx.is_true(literal(bv, false))
sign(S, bv) == ~S.truth[bv]

ctx_is_true(S, lit) == S.truth[lit.var] # lit.sign

ctx_flip(S, bv) ==
    [S EXCEPT !.truth[bv] = ~@, !.flips = Append(@, bv)]

abort(S) == [S EXCEPT !.status = "aborted"]

\* ----------------------------------------------------------- registration

add_arg(term, c, v) ==
    IF c # 0 THEN [term EXCEPT !.m_args = Append(@, <<c, v>>)] ELSE term

mk_var(S, e) ==
    IF S.m_expr2var[e] # UINT_MAX
    THEN [S |-> S, v |-> S.m_expr2var[e]]
    ELSE LET v == Len(S.m_vars) + 1
             k == IF ExprTab[e].int THEN "INT" ELSE "REAL"
         IN  [S |-> [S EXCEPT !.m_expr2var[e] = v,
                              !.m_vars = Append(@, var_info(e, k))],
              v |-> v]

\* sum of c * value(w) over a vector of (c, w), from position i
RECURSIVE args_sum(_, _, _)
args_sum(S, args, i) ==
    IF i > Len(args) THEN 0
    ELSE args[i][1] * value(S, args[i][2]) + args_sum(S, args, i + 1)

\* product of value(w) over a monomial, from position i
RECURSIVE monomial_prod(_, _, _)
monomial_prod(S, monomial, i) ==
    IF i > Len(monomial) THEN 1
    ELSE value(S, monomial[i]) * monomial_prod(S, monomial, i + 1)

\* m_vars[w].m_muls.push_back(idx) for every w of the monomial, in order
RECURSIVE push_muls(_, _, _, _)
push_muls(mv, monomial, i, idx) ==
    IF i > Len(monomial) THEN mv
    ELSE push_muls([mv EXCEPT ![monomial[i]].m_muls = Append(@, idx)],
                   monomial, i + 1, idx)

\* m_vars[w].m_adds.push_back(idx) for every argument, in order
RECURSIVE push_adds(_, _, _, _)
push_adds(mv, args, i, idx) ==
    IF i > Len(args) THEN mv
    ELSE push_adds([mv EXCEPT ![args[i][2]].m_adds = Append(@, idx)],
                   args, i + 1, idx)

RECURSIVE add_args(_, _, _, _)
RECURSIVE add_args_expr(_, _, _, _, _)
RECURSIVE add_args_seq(_, _, _, _, _)
RECURSIVE mul_args(_, _, _, _, _)
RECURSIVE mk_term(_, _)
RECURSIVE mk_op(_, _, _, _)

\* the value a fresh op definition gets
mk_op_val(S, k, v, w) ==
    CASE k = "OP_MOD"  -> IF value(S, v) = 0 THEN 0 ELSE mod(value(S, w), value(S, v))
      [] k = "OP_REM"  -> IF value(S, v) = 0 THEN 0 ELSE rem(value(S, w), value(S, v))
      [] k = "OP_IDIV" -> IF value(S, v) = 0 THEN 0 ELSE div(value(S, w), value(S, v))
      [] k = "OP_DIV"  -> IF value(S, v) = 0 THEN 0 ELSE quot(value(S, w), value(S, v))
      [] k = "OP_ABS"  -> abs(value(S, w))
      [] OTHER         -> 0

\* the op_def record mk_op pushes: {m_var, m_op, m_arg1, m_arg2} = {v, k, v, w}
op_def(v, k, w) == [m_var |-> v, m_op |-> k, m_arg1 |-> v, m_arg2 |-> w]

\* mk_op after mk_var(e) and mk_term(x): r2 is mk_term's result, v is e's
\* variable
mk_op_push(r2, v, k) ==
    IF k \notin {"OP_MOD", "OP_REM", "OP_IDIV", "OP_DIV", "OP_ABS"}
    THEN [S |-> abort(r2.S), v |-> v]
    ELSE [S |-> [r2.S EXCEPT !.m_ops = Append(@, op_def(v, k, r2.v)),
                             !.m_vars[v].m_def_idx = Len(r2.S.m_ops) + 1,
                             !.m_vars[v].m_op = k,
                             !.m_vars[v].m_value = mk_op_val(r2.S, k, v, r2.v)],
          v |-> v]

mk_op(S, k, e, x) == mk_op_push(mk_term(mk_var(S, e).S, x), mk_var(S, e).v, k)

\* add_args over the arguments es of an application, from position i
add_args_seq(S, term, es, i, coeff) ==
    IF i > Len(es) THEN [S |-> S, t |-> term]
    ELSE LET r == add_args(S, term, es[i], coeff)
         IN  add_args_seq(r.S, r.t, es, i + 1, coeff)

\* the loop of the is_mul case: numerals multiply into c, the others become
\* terms collected in m
mul_args(S, es, i, c, m) ==
    IF i > Len(es) THEN [S |-> S, c |-> c, m |-> m]
    ELSE IF ExprTab[es[i]].k = "num"
         THEN mul_args(S, es, i + 1, c * ExprTab[es[i]].n, m)
         ELSE LET r == mk_term(S, es[i])
              IN  mul_args(r.S, es, i + 1, c, Append(m, r.v))

op_kind(k) ==
    CASE k = "mod"     -> "OP_MOD"
      [] k = "idiv"    -> "OP_IDIV"
      [] k = "div"     -> "OP_DIV"
      [] k = "rem"     -> "OP_REM"
      [] k = "power"   -> "OP_POWER"
      [] k = "abs"     -> "OP_ABS"
      [] k = "to_int"  -> "OP_TO_INT"
      [] k = "to_real" -> "OP_TO_REAL"
      [] OTHER         -> "LAST_ARITH_OP"

\* term.m_args.push_back({coeff, r.v}) for the variable a callee returned
add_arg_of(r, term, coeff) == [S |-> r.S, t |-> add_arg(term, coeff, r.v)]

\* the is_mul branch after its loop (result r); in the default case r1 is the
\* result of mk_var(e)
add_args_mul(r, term, e, coeff) ==
    CASE Len(r.m) = 0 ->
           [S |-> r.S, t |-> [term EXCEPT !.m_coeff = @ + r.c * coeff]]
      [] Len(r.m) = 1 ->
           [S |-> r.S, t |-> add_arg(term, r.c * coeff, r.m[1])]
      [] OTHER ->
           LET r1 == mk_var(r.S, e)
           IN  [S |-> [r1.S EXCEPT
                         !.m_muls = Append(@, [m_var |-> r1.v, m_coeff |-> r.c,
                                               m_monomial |-> r.m]),
                         !.m_vars = [push_muls(@, r.m, 1, Len(r1.S.m_muls) + 1)
                                       EXCEPT ![r1.v].m_def_idx = Len(r1.S.m_muls) + 1,
                                              ![r1.v].m_op = "OP_MUL",
                                              ![r1.v].m_value =
                                                  r.c * monomial_prod(r1.S, r.m, 1)]],
                t |-> add_arg(term, coeff, r1.v)]

\* add_args on the expression x of id e
add_args_expr(S, term, e, coeff, x) ==
    IF S.m_expr2var[e] # UINT_MAX
    THEN [S |-> S, t |-> add_arg(term, coeff, S.m_expr2var[e])]
    ELSE IF x.k = "num"
    THEN [S |-> S, t |-> [term EXCEPT !.m_coeff = @ + coeff * x.n]]
    ELSE IF x.k = "add" THEN add_args_seq(S, term, x.a, 1, coeff)
    ELSE IF x.k = "sub"
    THEN LET r == add_args(S, term, x.a[1], coeff)
         IN  add_args(r.S, r.t, x.a[2], -coeff)
    ELSE IF x.k = "mul"
    THEN add_args_mul(mul_args(S, x.a, 1, 1, <<>>), term, e, coeff)
    ELSE IF x.k = "uminus" THEN add_args(S, term, x.a[1], -coeff)
    ELSE IF x.k \in {"mod", "idiv", "div", "rem", "power"}
    THEN add_arg_of(mk_op(S, op_kind(x.k), e, x.a[1]), term, coeff)
    ELSE IF x.k \in {"abs", "to_int", "to_real"}
    THEN add_arg_of(mk_op(S, op_kind(x.k), e, x.a[1]), term, coeff)
    ELSE add_arg_of(mk_var(S, e), term, coeff)

add_args(S, term, e, coeff) == add_args_expr(S, term, e, coeff, ExprTab[e])

\* mk_term after add_args (result r); r1 is the result of mk_var(e)
mk_term_of(r, e) ==
    IF r.t.m_coeff = 0 /\ Len(r.t.m_args) = 1 /\ r.t.m_args[1][1] = 1
    THEN [S |-> r.S, v |-> r.t.m_args[1][2]]
    ELSE LET r1 == mk_var(r.S, e)
         IN  [S |-> [r1.S EXCEPT
                       !.m_adds = Append(@, [m_args |-> r.t.m_args,
                                             m_coeff |-> r.t.m_coeff,
                                             m_var |-> r1.v]),
                       !.m_vars = [push_adds(@, r.t.m_args, 1, Len(r1.S.m_adds) + 1)
                                     EXCEPT ![r1.v].m_def_idx = Len(r1.S.m_adds) + 1,
                                            ![r1.v].m_op = "OP_ADD",
                                            ![r1.v].m_value =
                                                r.t.m_coeff
                                                + args_sum(r1.S, r.t.m_args, 1)]],
              v |-> r1.v]

mk_term(S, e) ==
    IF S.m_expr2var[e] # UINT_MAX THEN [S |-> S, v |-> S.m_expr2var[e]]
    ELSE mk_term_of(add_args(S, [m_args |-> <<>>, m_coeff |-> 0], e, 1), e)

new_ineq(op, coeff) ==
    [m_args |-> <<>>, m_coeff |-> coeff, m_op |-> op, m_args_value |-> 0,
     m_var_to_flip |-> UINT_MAX]

\* m_vars[v].m_bool_vars.push_back({coeff, bv}) for every argument, in order
RECURSIVE push_bool_vars(_, _, _, _)
push_bool_vars(mv, args, i, bv) ==
    IF i > Len(args) THEN mv
    ELSE push_bool_vars(
            [mv EXCEPT ![args[i][2]].m_bool_vars = Append(@, <<args[i][1], bv>>)],
            args, i + 1, bv)

init_ineq(S, bv, i) ==
    [S EXCEPT !.m_vars = push_bool_vars(@, i.m_args, 1, bv),
              !.m_bool_vars[bv] =
                  <<[i EXCEPT !.m_args_value = args_sum(S, i.m_args, 1)]>>]

\* init_bool_var after add_args(term, x) (result r1): add_args(term, y, -1)
\* (result r2), and the atom is stored
init_bool_var_rhs(r1, bv, op, k, y) ==
    LET r2 == add_args(r1.S, r1.t, y, -1)
    IN  init_ineq(r2.S, bv, [new_ineq(op, k) EXCEPT !.m_args = r2.t.m_args,
                                                    !.m_coeff = r2.t.m_coeff])

\* the atom x - y op 0 with constant k of init_bool_var's cases
init_bool_var_ineq(S, bv, op, k, x, y) ==
    init_bool_var_rhs(add_args(S, [m_args |-> <<>>, m_coeff |-> k], x, 1),
                      bv, op, k, y)

\* which case of init_bool_var the atom x takes, int telling whether its
\* operands are of sort Int: <<>> for none, else <<[op, k, x, y]>> for x - y + k op 0
init_bool_var_case(x, int) ==
    CASE x.k = "le" -> <<[op |-> "LE", k |-> 0, x |-> x.a[1], y |-> x.a[2]]>>
      [] x.k = "ge" -> <<[op |-> "LE", k |-> 0, x |-> x.a[2], y |-> x.a[1]]>>
      [] x.k = "lt" /\ int ->
             <<[op |-> "LE", k |-> 1, x |-> x.a[1], y |-> x.a[2]]>>
      [] x.k = "gt" /\ int ->
             <<[op |-> "LE", k |-> 1, x |-> x.a[2], y |-> x.a[1]]>>
      [] x.k = "lt" /\ ~int ->
             <<[op |-> "LT", k |-> 0, x |-> x.a[1], y |-> x.a[2]]>>
      [] x.k = "gt" /\ ~int ->
             <<[op |-> "LT", k |-> 0, x |-> x.a[2], y |-> x.a[1]]>>
      [] x.k = "eq" -> <<[op |-> "EQ", k |-> 0, x |-> x.a[1], y |-> x.a[2]]>>
      [] OTHER -> <<>>

init_bool_var(S, bv) ==
    IF atom(S, bv) # <<>> THEN S
    ELSE LET c == init_bool_var_case(ExprTab[Problems[problem].atoms[bv]],
                      ExprTab[ExprTab[Problems[problem].atoms[bv]].a[1]].int)
         IN  IF c = <<>> THEN S
             ELSE init_bool_var_ineq(S, bv, c[1].op, c[1].k, c[1].x, c[1].y)

\* -------------------------------------------------- truth and distance to truth

\* ineq::is_true with a fault: <= is read as <
ineq_is_true_strict(i) ==
    CASE i.m_op = "EQ" -> i.m_args_value + i.m_coeff = 0
      [] OTHER         -> i.m_args_value + i.m_coeff < 0

ineq_is_true(i) ==
    CASE i.m_op = "LE" -> i.m_args_value + i.m_coeff <= 0
      [] i.m_op = "EQ" -> i.m_args_value + i.m_coeff = 0
      [] OTHER         -> i.m_args_value + i.m_coeff < 0

\* dtt_num with a fault: the distance of a false LT atom lacks the + 1
dtt_num_short(sgn, args, i, one) ==
    CASE i.m_op = "LE" ->
            IF sgn
            THEN (IF args + i.m_coeff <= 0 THEN -i.m_coeff - args + one ELSE 0)
            ELSE (IF args + i.m_coeff <= 0 THEN 0 ELSE args + i.m_coeff)
      [] i.m_op = "EQ" ->
            IF sgn
            THEN (IF args + i.m_coeff = 0 THEN one ELSE 0)
            ELSE (IF args + i.m_coeff = 0 THEN 0 ELSE one)
      [] OTHER ->
            IF sgn
            THEN (IF args + i.m_coeff < 0 THEN -i.m_coeff - args ELSE 0)
            ELSE (IF args + i.m_coeff < 0 THEN 0 ELSE args + i.m_coeff)

\* dtt(sign, args, ineq) over num_t, where one is num_t(1): 1 for
\* checked_int_64, and the denominator when a rational is held as a
\* numerator over a fixed denominator
dtt_num(sgn, args, i, one) ==
    CASE i.m_op = "LE" ->
            IF sgn
            THEN (IF args + i.m_coeff <= 0 THEN -i.m_coeff - args + one ELSE 0)
            ELSE (IF args + i.m_coeff <= 0 THEN 0 ELSE args + i.m_coeff)
      [] i.m_op = "EQ" ->
            IF sgn
            THEN (IF args + i.m_coeff = 0 THEN one ELSE 0)
            ELSE (IF args + i.m_coeff = 0 THEN 0 ELSE one)
      [] OTHER ->
            IF sgn
            THEN (IF args + i.m_coeff < 0 THEN -i.m_coeff - args ELSE 0)
            ELSE (IF args + i.m_coeff < 0 THEN 0 ELSE args + i.m_coeff + one)

\* dtt(bool sign, num_t const& args, ineq const& ineq)
dtt(sgn, args, i) == dtt_num(sgn, args, i, 1)

\* dtt(bool sign, ineq const& ineq)
dtt_ineq(sgn, i) == dtt(sgn, i.m_args_value, i)

\* dtt(sign, ineq, coeff, old_value, new_value)
dtt_coeff(sgn, i, coeff, old_value, new_value) ==
    dtt(sgn, i.m_args_value + coeff * (new_value - old_value), i)

\* dtt(sign, ineq, v, new_value): the distance after v moves to new_value,
\* through the first argument of the atom that is v; num_t(1) when v is not
\* an argument of the atom
dtt_var(S, sgn, i, v, new_value) ==
    LET js == { j \in 1 .. Len(i.m_args) : i.m_args[j][2] = v }
    IN  IF js = {} THEN 1
        ELSE LET j == CHOOSE j0 \in js : \A j1 \in js : j0 <= j1
             IN  dtt(sgn, i.m_args_value
                            + i.m_args[j][1] * (new_value - value(S, v)), i)

\* the loop of compute_dts(cl) from literal j of the clause: the minimum of
\* dtt over the literals that have an atom, left at the first 0
RECURSIVE compute_dts_from(_, _, _, _, _)
compute_dts_from(S, cl, j, d, first) ==
    IF j > Len(cl) THEN d
    ELSE IF atom(S, cl[j].var) = <<>>
    THEN compute_dts_from(S, cl, j + 1, d, first)
    ELSE LET d2 == dtt_ineq(cl[j].sign, atom(S, cl[j].var)[1])
             dn == IF first \/ d2 < d THEN d2 ELSE d
         IN  IF dn = 0 THEN dn ELSE compute_dts_from(S, cl, j + 1, dn, FALSE)

\* compute_dts(cl), cl being the literals of the clause
compute_dts(S, cl) == compute_dts_from(S, cl, 1, 1, TRUE)

\* the loop of dts(cl, v, new_value) from literal j of the clause
RECURSIVE dts_from(_, _, _, _, _, _, _)
dts_from(S, cl, v, new_value, j, d, first) ==
    IF j > Len(cl) THEN d
    ELSE IF atom(S, cl[j].var) = <<>>
    THEN dts_from(S, cl, v, new_value, j + 1, d, first)
    ELSE LET d2 == dtt_var(S, cl[j].sign, atom(S, cl[j].var)[1], v, new_value)
             dn == IF first \/ d2 < d THEN d2 ELSE d
         IN  IF dn = 0 THEN dn
             ELSE dts_from(S, cl, v, new_value, j + 1, dn, FALSE)

\* dts(cl, v, new_value)
dts(S, cl, v, new_value) == dts_from(S, cl, v, new_value, 1, 1, TRUE)

\* the part of dscore(v, new_value) that the use list of lit adds: clauses
\* is the clause database of the context, each clause with its literals and
\* its weight, and the use list of lit holds the clauses that contain lit
RECURSIVE dscore_use_list(_, _, _, _, _, _)
dscore_use_list(S, clauses, lit, v, new_value, c) ==
    IF c > Len(clauses) THEN 0
    ELSE (IF \E j \in 1 .. Len(clauses[c].lits) : clauses[c].lits[j] = lit
          THEN (compute_dts(S, clauses[c].lits)
                    - dts(S, clauses[c].lits, v, new_value))
                   * clauses[c].weight
          ELSE 0)
         + dscore_use_list(S, clauses, lit, v, new_value, c + 1)

\* dscore(v, new_value) over the clause database clauses, from entry j of
\* vi.m_bool_vars
RECURSIVE dscore_clauses(_, _, _, _, _)
dscore_clauses(S, clauses, v, new_value, j) ==
    IF j > Len(S.m_vars[v].m_bool_vars) THEN 0
    ELSE dscore_use_list(S, clauses, Lit(S.m_vars[v].m_bool_vars[j][2], FALSE),
                         v, new_value, 1)
         + dscore_use_list(S, clauses, Lit(S.m_vars[v].m_bool_vars[j][2], TRUE),
                           v, new_value, 1)
         + dscore_clauses(S, clauses, v, new_value, j + 1)

\* ------------------------------------------------------------------ bounds

\* in_bounds with a fault: every value is accepted
in_bounds_any(S, v, val) == TRUE

\* in_bounds with a fault: the upper bound is not looked at
in_bounds_lo_only(S, v, val) ==
    ~(S.m_vars[v].m_lo # <<>> /\ val < S.m_vars[v].m_lo[1].value)

\* in_bounds with a fault: the lower bound is not looked at
in_bounds_hi_only(S, v, val) ==
    LET hi == S.m_vars[v].m_hi
    IN  IF hi # <<>> /\ val > hi[1].value THEN FALSE
        ELSE IF hi # <<>> /\ hi[1].is_strict /\ val >= hi[1].value THEN FALSE
        ELSE TRUE

in_bounds(S, v, val) ==
    LET lo == S.m_vars[v].m_lo
        hi == S.m_vars[v].m_hi
    IN  IF lo # <<>> /\ val < lo[1].value THEN FALSE
        ELSE IF lo # <<>> /\ lo[1].is_strict /\ val <= lo[1].value THEN FALSE
        ELSE IF hi # <<>> /\ val > hi[1].value THEN FALSE
        ELSE IF hi # <<>> /\ hi[1].is_strict /\ val >= hi[1].value THEN FALSE
        ELSE TRUE

is_fixed(S, v) ==
    LET lo == S.m_vars[v].m_lo
        hi == S.m_vars[v].m_hi
    IN  lo # <<>> /\ hi # <<>> /\ lo[1].value = hi[1].value
        /\ lo[1].value = value(S, v)

\* ------------------------------------------------------------------ update

\* update_is_noop with a fault: update never returns at once
update_is_noop_never(old_value, new_value) == FALSE

\* update returns at once when the value does not change
update_is_noop(old_value, new_value) == old_value = new_value

\* update_bool_var with a fault: the cached m_args_value takes the change of
\* v without its coefficient
update_bool_var_unscaled(S, coeff, bv, old_value, new_value) ==
    LET i  == [atom(S, bv)[1] EXCEPT
                 !.m_args_value = @ + (new_value - old_value)]
        S1 == [S EXCEPT !.m_bool_vars[bv] = <<i>>]
    IN  IF dtt_ineq(sign(S1, bv), i) # 0 THEN ctx_flip(S1, bv) ELSE S1

\* update_bool_var with a fault: the controller is never asked to flip
update_bool_var_silent(S, coeff, bv, old_value, new_value) ==
    [S EXCEPT !.m_bool_vars[bv] =
        <<[atom(S, bv)[1] EXCEPT
             !.m_args_value = @ + coeff * (new_value - old_value)]>>]

\* one round of update's loop over vi.m_bool_vars: the atom of bv takes the
\* change of v with coefficient coeff, and the controller is asked to flip bv
\* when its truth disagrees with the atom
update_bool_var(S, coeff, bv, old_value, new_value) ==
    LET i  == [atom(S, bv)[1] EXCEPT
                 !.m_args_value = @ + coeff * (new_value - old_value)]
        S1 == [S EXCEPT !.m_bool_vars[bv] = <<i>>]
    IN  IF dtt_ineq(sign(S1, bv), i) # 0 THEN ctx_flip(S1, bv) ELSE S1

RECURSIVE update_bool_vars(_, _, _, _, _)
update_bool_vars(S, bvs, j, old_value, new_value) ==
    IF j > Len(bvs) THEN S
    ELSE update_bool_vars(
            update_bool_var(S, bvs[j][1], bvs[j][2], old_value, new_value),
            bvs, j + 1, old_value, new_value)

\* the test under which update re-evaluates the result of an add definition
update_add_changed(S, ad, sum) == sum # ad.m_coeff

RECURSIVE update(_, _, _, _)
RECURSIVE update_muls(_, _, _, _)
RECURSIVE update_adds(_, _, _, _)

\* update's loop over vi.m_muls, from position j
update_muls(S, idxs, j, d) ==
    IF j > Len(idxs) \/ S.status # "run" THEN S
    ELSE LET md   == S.m_muls[idxs[j]]
             prod == md.m_coeff * monomial_prod(S, md.m_monomial, 1)
             S1   == IF value(S, md.m_var) # prod
                     THEN update(S, md.m_var, prod, d + 1).S
                     ELSE S
         IN  update_muls(S1, idxs, j + 1, d)

\* update's loop over vi.m_adds, from position j
update_adds(S, idxs, j, d) ==
    IF j > Len(idxs) \/ S.status # "run" THEN S
    ELSE LET ad  == S.m_adds[idxs[j]]
             sum == ad.m_coeff + args_sum(S, ad.m_args, 1)
             S1  == IF update_add_changed(S, ad, sum)
                    THEN update(S, ad.m_var, sum, d + 1).S
                    ELSE S
         IN  update_adds(S1, idxs, j + 1, d)

\* update(v, new_value) at call depth d: the state it leaves and what it returns
update(S, v, new_value, d) ==
    LET vi        == S.m_vars[v]
        old_value == vi.m_value
        lo        == vi.m_lo
        hi        == vi.m_hi
    IN
    IF d > MaxDepth THEN [S |-> [S EXCEPT !.status = "diverged"], ret |-> FALSE]
    ELSE IF update_is_noop(old_value, new_value) THEN [S |-> S, ret |-> TRUE]
    ELSE IF ~in_bounds(S, v, new_value)
    THEN IF is_int(S, v) /\ lo # <<>> /\ ~lo[1].is_strict /\ new_value < lo[1].value
         THEN IF lo[1].value # old_value
              THEN update(S, v, lo[1].value, d + 1)
              ELSE IF in_bounds(S, v, old_value + 1)
              THEN update(S, v, old_value + 1, d + 1)
              ELSE [S |-> S, ret |-> FALSE]
         ELSE IF is_int(S, v) /\ hi # <<>> /\ ~hi[1].is_strict /\ new_value > hi[1].value
         THEN IF hi[1].value # old_value
              THEN update(S, v, hi[1].value, d + 1)
              ELSE IF in_bounds(S, v, old_value - 1)
              THEN update(S, v, old_value - 1, d + 1)
              ELSE [S |-> S, ret |-> FALSE]
         ELSE [S |-> S, ret |-> FALSE]
    ELSE LET S1 == update_bool_vars(S, vi.m_bool_vars, 1, old_value, new_value)
             S2 == [S1 EXCEPT !.m_vars[v].m_value = new_value,
                              !.eh = Append(@, vi.m_expr)]
             S3 == update_muls(S2, vi.m_muls, 1, d)
             S4 == update_adds(S3, vi.m_adds, 1, d)
         IN  [S |-> S4, ret |-> TRUE]

\* ----------------------------------------------------------- critical move

\* ctx.rand(n)
Rand(n) == 0 .. (n - 1)

\* divide with a fault: the quotient is not rounded up
divide_down(S, v, delta, coeff) == div(delta, coeff)

divide(S, v, delta, coeff) ==
    IF is_int(S, v) THEN div(delta + abs(coeff) - 1, coeff)
    ELSE quot(delta, coeff)

\* the lambda well_formed of cm, for a tentative new_value
well_formed(S, i, v, coeff, new_value) ==
    LET bound    == -i.m_coeff
        new_args == i.m_args_value + coeff * (new_value - value(S, v))
    IN  IF ineq_is_true(i)
        THEN CASE i.m_op = "LE" -> new_args > bound
               [] i.m_op = "LT" -> new_args >= bound
               [] OTHER         -> new_args # bound
        ELSE CASE i.m_op = "LE" -> new_args <= bound
               [] i.m_op = "LT" -> new_args < bound
               [] OTHER         -> new_args = bound

CmResult(ok, new_value, aborted) ==
    [ok |-> ok, new_value |-> new_value, abort |-> aborted]

\* move_to_bounds: new_value = lo->value, stepping inside when that is not
\* well formed
move_to_bounds_lo(S, i, v, coeff, new_value, lo) ==
    IF lo # <<>> /\ lo[1].value > new_value
    THEN (IF well_formed(S, i, v, coeff, lo[1].value)
          THEN lo[1].value ELSE lo[1].value + 1)
    ELSE new_value

\* move_to_bounds: new_value = hi->value, stepping inside when that is not
\* well formed
move_to_bounds_hi(S, i, v, coeff, new_value, hi) ==
    IF hi # <<>> /\ hi[1].value < new_value
    THEN (IF well_formed(S, i, v, coeff, hi[1].value)
          THEN hi[1].value ELSE hi[1].value - 1)
    ELSE new_value

\* move_to_bounds_ret with a fault: return true
move_to_bounds_ret_true(S, i, v, coeff, new_value) ==
    CmResult(TRUE, new_value, FALSE)

\* move_to_bounds: return well_formed() && in_bounds(v, new_value)
move_to_bounds_ret(S, i, v, coeff, new_value) ==
    CmResult(well_formed(S, i, v, coeff, new_value) /\ in_bounds(S, v, new_value),
             new_value, FALSE)

\* the lambda move_to_bounds of cm; VERIFY(well_formed()) aborts the program
move_to_bounds(S, i, v, coeff, new_value) ==
    IF ~well_formed(S, i, v, coeff, new_value) THEN CmResult(FALSE, new_value, TRUE)
    ELSE IF ~in_bounds(S, v, value(S, v)) THEN CmResult(TRUE, new_value, FALSE)
    ELSE IF in_bounds(S, v, new_value) THEN CmResult(TRUE, new_value, FALSE)
    ELSE move_to_bounds_ret(S, i, v, coeff,
             move_to_bounds_hi(S, i, v, coeff,
                 move_to_bounds_lo(S, i, v, coeff, new_value, S.m_vars[v].m_lo),
                 S.m_vars[v].m_hi))

\* the tentative new_values n the random draws of cm allow and how cm goes on
\* with each (st): "bounds" (return move_to_bounds()), "abort" (a VERIFY
\* fails), "false" (return false); with
\* bound = -m_coeff, argsv = m_args_value, delta = argsv - bound, val = value(v)
cm_values(S, i, v, coeff, bound, argsv, delta, val) ==
    IF ineq_is_true(i)
    THEN CASE i.m_op = "LE" ->
                { [n |-> val + divide(S, v, abs((delta - 1) - r3), coeff), st |-> "bounds"] :
                  r3 \in Rand(3) }
           [] i.m_op = "LT" ->
                { [n |-> val + divide(S, v, abs(delta) + r3, coeff), st |-> IF argsv + coeff * divide(S, v, abs(delta) + r3, coeff)
                               >= bound
                          THEN "bounds" ELSE "abort"] : r3 \in Rand(3) }
           [] OTHER ->
                { [n |-> val + (IF r2 = 0 THEN 1 ELSE -1)
                                * divide(S, v, abs(abs(delta) + 1 + r10), coeff), st |-> "bounds"] :
                  <<r10, r2>> \in Rand(10) \X Rand(2) }
    ELSE CASE i.m_op = "LE" ->
                { [n |-> val - divide(S, v, (delta + r10) + r3, coeff), st |-> "bounds"] :
                  <<r10, r3>> \in Rand(10) \X Rand(3) }
           [] i.m_op = "LT" ->
                { [n |-> val - divide(S, v, (delta + 1 + r10) + r3, coeff), st |-> "bounds"] :
                  <<r10, r3>> \in Rand(10) \X Rand(3) }
           [] OTHER ->
                { [n |-> IF delta < 0 THEN val + divide(S, v, abs(delta), coeff)
                          ELSE val - divide(S, v, delta, coeff), st |-> IF argsv + coeff *
                               (IF delta < 0 THEN divide(S, v, abs(delta), coeff)
                                ELSE -divide(S, v, delta, coeff)) = bound
                          THEN "bounds" ELSE "false"] }

\* how cm ends on the tentative value c
cm_end(S, i, v, coeff, c) ==
    CASE c.st = "abort" -> CmResult(FALSE, c.n, TRUE)
      [] c.st = "false" -> CmResult(FALSE, c.n, FALSE)
      [] OTHER          -> move_to_bounds(S, i, v, coeff, c.n)

\* cm(ineq, v, coeff, new_value): every result the random draws allow
cm(S, i, v, coeff) ==
    IF is_fixed(S, v) THEN {CmResult(FALSE, 0, FALSE)}
    ELSE { cm_end(S, i, v, coeff, c) :
           c \in cm_values(S, i, v, coeff, -i.m_coeff, i.m_args_value,
                           i.m_args_value + i.m_coeff, value(S, v)) }

\* position of the first argument of the atom that is variable v (0: none)
RECURSIVE arg_index(_, _, _)
arg_index(args, v, j) ==
    IF j > Len(args) THEN 0
    ELSE IF args[j][2] = v THEN j
    ELSE arg_index(args, v, j + 1)

\* cm(ineq, v, new_value)
cm_var(S, i, v) ==
    LET j == arg_index(i.m_args, v, 1)
    IN  IF j = 0 THEN {CmResult(FALSE, 0, FALSE)}
        ELSE cm(S, i, v, i.m_args[j][1])

\* ------------------------------------------------------------- dtt_reward

\* Probabilities are kept in tenths: 0.5 is 5, 0.1 is 1, 0.2 is 2, a positive
\* score s is 10 * s.  ProbAbort marks a draw on which cm aborts.
ProbAbort == -1

\* the score of moving x to new_value: atoms made true minus atoms made false
RECURSIVE dtt_reward_result(_, _, _, _, _)
dtt_reward_result(S, bvs, j, old_value, new_value) ==
    IF j > Len(bvs) THEN 0
    ELSE LET coeff    == bvs[j][1]
             bv       == bvs[j][2]
             old_sign == sign(S, bv)
             dtt_old  == dtt_ineq(old_sign, atom(S, bv)[1])
             dtt_new  == dtt_coeff(old_sign, atom(S, bv)[1], coeff, old_value, new_value)
             here     == (IF dtt_new = 0 /\ dtt_old # 0 THEN 1 ELSE 0)
                         - (IF dtt_new # 0 /\ dtt_old = 0 THEN 1 ELSE 0)
         IN  here + dtt_reward_result(S, bvs, j + 1, old_value, new_value)

\* the probabilities argument (coeff, x) of the atom can get
dtt_reward_probs(S, i, coeff, x) ==
    IF is_fixed(S, x) THEN {0}
    ELSE { IF c.abort THEN ProbAbort
           ELSE IF ~c.ok THEN 5
           ELSE LET result == dtt_reward_result(S, S.m_vars[x].m_bool_vars, 1,
                                                value(S, x), c.new_value)
                IN  IF result < 0 THEN 1
                    ELSE IF result = 0 THEN 2
                    ELSE 10 * result :
           c \in cm(S, i, x, coeff) }

\* every vector m_probs the loop over the arguments can fill, from position j
RECURSIVE dtt_reward_vectors(_, _, _)
dtt_reward_vectors(S, i, j) ==
    IF j > Len(i.m_args) THEN {<<>>}
    ELSE { <<p>> \o rest :
           p \in dtt_reward_probs(S, i, i.m_args[j][1], i.m_args[j][2]),
           rest \in dtt_reward_vectors(S, i, j + 1) }

RECURSIVE seq_sum(_, _)
seq_sum(q, j) == IF j > Len(q) THEN 0 ELSE q[j] + seq_sum(q, j + 1)

\* do { lim -= m_probs[--i]; } while (lim >= 0 && i > 0), entered with i (one
\* past the position read next); lim is scaled by RandGrid
RECURSIVE roulette(_, _, _)
roulette(probs, i, lim) ==
    LET i1   == i - 1
        lim1 == lim - probs[i1] * RandGrid
    IN  IF lim1 >= 0 /\ i1 > 1 THEN roulette(probs, i1, lim1) ELSE i1

\* dtt_reward(lit) on an atom: the states it can leave (m_var_to_flip set)
dtt_reward(S, bv) ==
    IF atom(S, bv) = <<>> THEN {S}
    ELSE LET i == atom(S, bv)[1]
         IN  IF Len(i.m_args) = 0 THEN {abort(S)}
             ELSE { IF \E j \in 1 .. Len(probs) : probs[j] = ProbAbort
                    THEN abort(S)
                    ELSE LET pick == roulette(probs, Len(probs) + 1,
                                              seq_sum(probs, 1) * k)
                         IN  [S EXCEPT !.m_bool_vars[bv][1].m_var_to_flip =
                                           i.m_args[pick][2]] :
                    probs \in dtt_reward_vectors(S, i, 1), k \in 0 .. RandGrid }

\* ---------------------------------------------------------- solve_eq_pairs

\* gcd(a, b, x0, y0): g = gcd(a, b) >= 1 with g = a * x0 + b * y0
RECURSIVE ext_gcd(_, _)
ext_gcd(a, b) ==
    IF b = 0 THEN [g |-> abs(a), x |-> IF a < 0 THEN -1 ELSE 1, y |-> 0]
    ELSE LET q == div(a, b)
             r == ext_gcd(b, a - q * b)
         IN  [g |-> r.g, x |-> r.y, y |-> r.x - q * r.y]

\* a tentative solution (x0, y0) of solve_eq_pairs; ok is FALSE once a step
\* has returned false
EqSol(ok, x0, y0) == [ok |-> ok, x0 |-> x0, y0 |-> y0]

\* adjust_lo / adjust_hi by k steps of size bg on the solution s
adjust_by(s, k, bg, a, b, g, lo, hi, up) ==
    IF up /\ hi # <<>> /\ hi[1].value < s.x0 + k * bg THEN EqSol(FALSE, s.x0, s.y0)
    ELSE IF ~up /\ lo # <<>> /\ lo[1].value < s.x0 - k * bg
    THEN EqSol(FALSE, s.x0, s.y0)
    ELSE IF up
    THEN EqSol(TRUE, s.x0 + k * bg,
               s.y0 + k * (IF div(b, g) > 0 THEN -div(a, g) ELSE div(a, g)))
    ELSE EqSol(TRUE, s.x0 - k * bg,
               s.y0 - k * (IF div(b, g) > 0 THEN -div(a, g) ELSE div(a, g)))

\* the lambda adjust_lo; x0 is the component moved up to lo, along b / g
adjust_lo(S, x, g, s, a, b, lo, hi) ==
    IF ~s.ok \/ lo = <<>> \/ lo[1].value <= s.x0 THEN s
    ELSE adjust_by(s, divide(S, x, lo[1].value - s.x0, abs(div(b, g))),
                   abs(div(b, g)), a, b, g, lo, hi, TRUE)

\* the lambda adjust_hi
adjust_hi(S, x, g, s, a, b, lo, hi) ==
    IF ~s.ok \/ hi = <<>> \/ hi[1].value >= s.x0 THEN s
    ELSE adjust_by(s, div(s.x0 - hi[1].value, abs(div(b, g))),
                   abs(div(b, g)), a, b, g, lo, hi, FALSE)

\* solve_eq_pairs_sol with a fault: no test of abs(value) * 2 < abs(x0), abs(y0)
solve_eq_pairs_sol_far(S, x, y, s, lo_x, hi_x) ==
    IF ~s.ok THEN [S |-> S, ret |-> FALSE]
    ELSE IF lo_x # <<>> /\ lo_x[1].value > s.x0 THEN [S |-> S, ret |-> FALSE]
    ELSE IF hi_x # <<>> /\ hi_x[1].value < s.x0 THEN [S |-> S, ret |-> FALSE]
    ELSE IF s.x0 = value(S, x) THEN [S |-> S, ret |-> FALSE]
    ELSE [S |-> update(update(S, x, s.x0, 1).S, y, s.y0, 1).S, ret |-> TRUE]

\* solve_eq_pairs(a, x, b, y, r) from the adjusted solution s on: the checks
\* of x0 and y0, update(x, x0) and update(y, y0)
solve_eq_pairs_sol(S, x, y, s, lo_x, hi_x) ==
    IF ~s.ok THEN [S |-> S, ret |-> FALSE]
    ELSE IF lo_x # <<>> /\ lo_x[1].value > s.x0 THEN [S |-> S, ret |-> FALSE]
    ELSE IF hi_x # <<>> /\ hi_x[1].value < s.x0 THEN [S |-> S, ret |-> FALSE]
    ELSE IF s.x0 = value(S, x) THEN [S |-> S, ret |-> FALSE]
    ELSE IF abs(value(S, x)) * 2 < abs(s.x0) THEN [S |-> S, ret |-> FALSE]
    ELSE IF abs(value(S, y)) * 2 < abs(s.y0) THEN [S |-> S, ret |-> FALSE]
    ELSE LET u == update(S, x, s.x0, 1).S
         IN  [S |-> IF u.status = "run" THEN update(u, y, s.y0, 1).S ELSE u,
              ret |-> TRUE]

\* the solution after adjust_lo and adjust_hi ran for x on s: they run for y
\* with the roles of x0 and y0 swapped
solve_eq_pairs_adjust_y(S, a, x, b, g, s, lo_y, hi_y) ==
    adjust_hi(S, x, g, adjust_lo(S, x, g, EqSol(s.ok, s.y0, s.x0),
                                 b, a, lo_y, hi_y),
              b, a, lo_y, hi_y)

\* solve_eq_pairs(a, x, b, y, r) from the gcd e on
solve_eq_pairs_gcd(S, a, x, b, y, r, e, lo_x, hi_x, lo_y, hi_y) ==
    IF ~divides(e.g, r) THEN [S |-> S, ret |-> FALSE]
    ELSE LET s == solve_eq_pairs_adjust_y(S, a, x, b, e.g,
                      adjust_hi(S, x, e.g,
                          adjust_lo(S, x, e.g,
                              EqSol(TRUE, e.x * div(r, e.g), e.y * div(r, e.g)),
                              a, b, lo_x, hi_x),
                          a, b, lo_x, hi_x),
                      lo_y, hi_y)
         IN  solve_eq_pairs_sol(S, x, y, EqSol(s.ok, s.y0, s.x0), lo_x, hi_x)

\* solve_eq_pairs(a, x, b, y, r)
solve_eq_pairs2(S, a, x, b, y, r) ==
    IF is_fixed(S, y) THEN [S |-> S, ret |-> FALSE]
    ELSE solve_eq_pairs_gcd(S, a, x, b, y, r, ext_gcd(a, b),
                            S.m_vars[x].m_lo, S.m_vars[x].m_hi,
                            S.m_vars[y].m_lo, S.m_vars[y].m_hi)

\* the coefficient a of v, and args_value less every occurrence of v
RECURSIVE solve_eq_pairs_a(_, _, _, _, _, _)
solve_eq_pairs_a(S, args, v, j, a, argsv) ==
    IF j > Len(args) THEN [a |-> a, argsv |-> argsv]
    ELSE IF args[j][2] = v
    THEN solve_eq_pairs_a(S, args, v, j + 1, args[j][1],
                          argsv - value(S, v) * args[j][1])
    ELSE solve_eq_pairs_a(S, args, v, j + 1, a, argsv)

\* the loop of solve_eq_pairs(ineq) over the arguments, round n, from start
RECURSIVE solve_eq_pairs_loop(_, _, _, _, _, _, _)
solve_eq_pairs_loop(S, i, v, a, argsv, start, n) ==
    IF n >= Len(i.m_args) THEN [S |-> S, ret |-> FALSE]
    ELSE LET j == ((start + n) % Len(i.m_args)) + 1
             b == i.m_args[j][1]
             w == i.m_args[j][2]
         IN  IF w = v \/ b = 1 \/ b = -1
             THEN solve_eq_pairs_loop(S, i, v, a, argsv, start, n + 1)
             ELSE LET r == solve_eq_pairs2(S, a, v, b, w,
                               (-i.m_coeff) - (argsv - value(S, w) * b))
                  IN  IF r.ret THEN r
                      ELSE solve_eq_pairs_loop(S, i, v, a, argsv, start, n + 1)

\* solve_eq_pairs(ineq) for the atom of bv: every result the random start
\* allows
solve_eq_pairs(S, bv) ==
    LET i == atom(S, bv)[1]
        v == i.m_var_to_flip
    IN  IF is_fixed(S, v) THEN {[S |-> S, ret |-> FALSE]}
        ELSE LET r == solve_eq_pairs_a(S, i.m_args, v, 1, 0, i.m_args_value)
             IN  IF abs(r.a) = 1 THEN {[S |-> S, ret |-> FALSE]}
                 ELSE { solve_eq_pairs_loop(S, i, v, r.a, r.argsv, start, 0) :
                        start \in 0 .. (Len(i.m_args) - 1) }

\* dscore(v, new_value) sums weighted differences of dts over the clauses of
\* the context that use the atoms of v; the clauses and their weights belong
\* to the context, so every score in Scores can come back
Scores == {-1, 0, 1}

dscore(S, v, new_value) == Scores

\* the loop of dscore_reward over the arguments of the atom, from position j:
\* the first argument whose critical move has a positive dscore is stored;
\* cs holds the results cm can give for argument j
RECURSIVE dscore_reward_loop(_, _, _)
dscore_reward_at(S, bv, j, v, cs) ==
    (IF \E c \in cs : c.abort THEN {abort(S)} ELSE {})
    \cup (IF \E c \in cs : ~c.abort /\ c.ok
                /\ \E result \in dscore(S, v, c.new_value) : result > 0
          THEN {[S EXCEPT !.m_bool_vars[bv][1].m_var_to_flip = v]}
          ELSE {})
    \cup (IF \E c \in cs : ~c.abort
                /\ (~c.ok \/ \E result \in dscore(S, v, c.new_value) : result <= 0)
          THEN dscore_reward_loop(S, bv, j + 1)
          ELSE {})

dscore_reward_loop(S, bv, j) ==
    IF j > Len(atom(S, bv)[1].m_args) THEN {S}
    ELSE dscore_reward_at(S, bv, j, atom(S, bv)[1].m_args[j][2],
                          cm(S, atom(S, bv)[1], atom(S, bv)[1].m_args[j][2],
                             atom(S, bv)[1].m_args[j][1]))

\* dscore_reward(bv): the states it can leave; its first statement is
\* m_dscore_mode = false
dscore_reward(S, bv) ==
    IF atom(S, bv) = <<>> THEN {[S EXCEPT !.m_dscore_mode = FALSE]}
    ELSE dscore_reward_loop([S EXCEPT !.m_dscore_mode = FALSE], bv, 1)

\* reward(lit): the states it can leave
reward(S, lit) ==
    IF S.m_dscore_mode THEN dscore_reward(S, lit.var)
    ELSE dtt_reward(S, lit.var)

\* switch to dscore mode
on_rescale(S) == [S EXCEPT !.m_dscore_mode = TRUE]

\* ------------------------------------------------------------------ repair

\* if (dtt(!ctx.is_true(lit), ineq) != 0) ctx.flip(lit.var());
repair_flip(S, lit) ==
    IF dtt_ineq(~ctx_is_true(S, lit), atom(S, lit.var)[1]) # 0
    THEN ctx_flip(S, lit.var)
    ELSE S

\* An alternative of repair_eq / repair leaves o = [S, ret]: ret tells that it
\* succeeded; a later alternative runs only on a running state with ret FALSE.
repair_open(o) == o.S.status = "run" /\ ~o.ret

\* cm_update with a fault: the value cm found is not written
cm_update_dropped(S, v, c) ==
    IF c.abort THEN [S |-> abort(S), ret |-> FALSE]
    ELSE [S |-> S, ret |-> c.ok]

\* cm_update with a fault: the tentative value is written although cm failed
cm_update_forced(S, v, c) ==
    IF c.abort THEN [S |-> abort(S), ret |-> FALSE]
    ELSE update(S, v, c.new_value, 1)

\* cm(ineq, v, new_value) && update(v, new_value), for the result c of cm
cm_update(S, v, c) ==
    IF c.abort THEN [S |-> abort(S), ret |-> FALSE]
    ELSE IF ~c.ok THEN [S |-> S, ret |-> FALSE]
    ELSE update(S, v, c.new_value, 1)

\* repair_eq's second alternative, after the first (rand(10) == 0 &&
\* solve_eq_pairs(ineq)) left o
repair_eq_cm(o, lit) ==
    IF ~repair_open(o) THEN {o}
    ELSE { cm_update(o.S, atom(o.S, lit.var)[1].m_var_to_flip, c) :
           c \in cm_var(o.S, atom(o.S, lit.var)[1],
                        atom(o.S, lit.var)[1].m_var_to_flip) }

\* repair_eq's third alternative, after the second left o
repair_eq_pairs(o, lit) ==
    IF ~repair_open(o) THEN {o} ELSE solve_eq_pairs(o.S, lit.var)

\* the flip that ends repair_eq and repair, after the alternatives left o
repair_end(o, lit) ==
    IF o.S.status = "run" /\ o.ret
    THEN [S |-> repair_flip(o.S, lit), ret |-> TRUE]
    ELSE o

\* repair_eq(lit, ineq): every result the random draws allow
repair_eq(S, lit) ==
    IF lit.sign \/ atom(S, lit.var)[1].m_op # "EQ" THEN {[S |-> S, ret |-> FALSE]}
    ELSE { repair_end(o3, lit) :
           o3 \in UNION { repair_eq_pairs(o2, lit) :
                  o2 \in UNION { repair_eq_cm(o1, lit) :
                         o1 \in UNION { IF r10 = 0 THEN solve_eq_pairs(S, lit.var)
                                        ELSE {[S |-> S, ret |-> FALSE]} :
                                        r10 \in Rand(10) } } } }

\* repair's own move after repair_eq left o: cm and update on the pivot, and
\* the flip whether or not they succeed
repair_cm(o, lit) ==
    IF ~repair_open(o) THEN {o.S}
    ELSE { repair_end([S |-> cm_update(o.S, atom(o.S, lit.var)[1].m_var_to_flip,
                                       c).S,
                       ret |-> TRUE], lit).S :
           c \in cm_var(o.S, atom(o.S, lit.var)[1],
                        atom(o.S, lit.var)[1].m_var_to_flip) }

\* repair(lit, ineq): the states it can leave; S1 is left by dtt_reward
repair(S, lit) ==
    UNION { IF S1.status # "run" \/ atom(S1, lit.var)[1].m_var_to_flip = UINT_MAX
            THEN {S1}
            ELSE UNION { repair_cm(o, lit) : o \in repair_eq(S1, lit) } :
            S1 \in dtt_reward(S, lit.var) }

propagate_literal(S, lit) ==
    IF ~ctx_is_true(S, lit) THEN {S}
    ELSE IF atom(S, lit.var) = <<>> THEN {S}
    ELSE IF ineq_is_true(atom(S, lit.var)[1]) # lit.sign THEN {S}
    ELSE repair(S, lit)

\* repair_literal with a fault: the truth value is flipped when the atom
\* disagrees with the sign of the literal instead of the controller's truth
repair_literal_by_sign(S, lit) ==
    IF atom(S, lit.var) # <<>> /\ ineq_is_true(atom(S, lit.var)[1]) = lit.sign
    THEN ctx_flip(S, lit.var)
    ELSE S

repair_literal(S, lit) ==
    LET v == lit.var
    IN  IF atom(S, v) # <<>> /\ ineq_is_true(atom(S, v)[1]) # S.truth[v]
        THEN ctx_flip(S, v)
        ELSE S

init_bool_var_assignment(S, v) ==
    IF atom(S, v) # <<>>
       /\ S.truth[v] # (dtt_ineq(FALSE, atom(S, v)[1]) = 0)
    THEN ctx_flip(S, v)
    ELSE S

\* check_ineqs: VERIFY(ctx.is_true(lit) == (d == 0)) for every Boolean variable
check_ineqs_ok(S) ==
    \A bv \in 1 .. Len(S.m_bool_vars) :
        atom(S, bv) # <<>> =>
            (ctx_is_true(S, Lit(bv, sign(S, bv)))
                = (dtt_ineq(sign(S, bv), atom(S, bv)[1]) = 0))

RECURSIVE on_restart_loop(_, _)
on_restart_loop(S, v) ==
    IF v > Len(S.m_bool_vars) THEN S
    ELSE on_restart_loop(init_bool_var_assignment(S, v), v + 1)

\* on_restart with a fault: the values are reset to 0
on_restart_reset(S) ==
    [S EXCEPT !.m_vars = [v \in 1 .. Len(S.m_vars) |->
                             [S.m_vars[v] EXCEPT !.m_value = 0]]]

on_restart(S) ==
    LET S1 == on_restart_loop(S, 1)
    IN  IF check_ineqs_ok(S1) THEN S1 ELSE abort(S1)

\* --------------------------------------------------------------- repair_up

\* what repair_up computes for the variable of var_info vi: <<>> when it
\* returns without an update, <<value>> for update(v, value), "abort" when
\* the operator is not implemented
repair_up_value(S, vi) ==
    IF vi.m_def_idx = UINT_MAX \/ vi.m_op = "LAST_ARITH_OP" THEN <<>>
    ELSE CASE vi.m_op = "OP_ADD" ->
            <<S.m_adds[vi.m_def_idx].m_coeff
                + args_sum(S, S.m_adds[vi.m_def_idx].m_args, 1)>>
      [] vi.m_op = "OP_MUL" ->
            <<S.m_muls[vi.m_def_idx].m_coeff
                * monomial_prod(S, S.m_muls[vi.m_def_idx].m_monomial, 1)>>
      [] vi.m_op = "OP_MOD" ->
            <<IF value(S, S.m_ops[vi.m_def_idx].m_arg2) = 0 THEN 0
              ELSE mod(value(S, S.m_ops[vi.m_def_idx].m_arg1),
                       value(S, S.m_ops[vi.m_def_idx].m_arg2))>>
      [] vi.m_op = "OP_DIV" ->
            <<IF value(S, S.m_ops[vi.m_def_idx].m_arg2) = 0 THEN 0
              ELSE quot(value(S, S.m_ops[vi.m_def_idx].m_arg1),
                        value(S, S.m_ops[vi.m_def_idx].m_arg2))>>
      [] vi.m_op = "OP_IDIV" ->
            <<IF value(S, S.m_ops[vi.m_def_idx].m_arg2) = 0 THEN 0
              ELSE div(value(S, S.m_ops[vi.m_def_idx].m_arg1),
                       value(S, S.m_ops[vi.m_def_idx].m_arg2))>>
      [] vi.m_op = "OP_REM" ->
            <<IF value(S, S.m_ops[vi.m_def_idx].m_arg2) = 0 THEN 0
              ELSE rem(value(S, S.m_ops[vi.m_def_idx].m_arg1),
                       value(S, S.m_ops[vi.m_def_idx].m_arg2))>>
      [] vi.m_op = "OP_ABS" ->
            <<abs(value(S, S.m_ops[vi.m_def_idx].m_arg1))>>
      [] OTHER -> "abort"

repair_up(S, e) ==
    IF S.m_expr2var[e] = UINT_MAX THEN S
    ELSE LET val == repair_up_value(S, S.m_vars[S.m_expr2var[e]])
         IN  IF val = <<>> THEN S
             ELSE IF val = "abort" THEN abort(S)
             ELSE update(S, S.m_expr2var[e], val[1], 1).S

\* ------------------------------------------------------------- repair_down

RECURSIVE update_all(_, _, _)
RECURSIVE update_first(_, _, _)

\* update(v, n) for every move <<v, n>> in turn, returning false at the first
\* update that fails and true at the end (for one move: return update(v, n))
update_all(S, moves, j) ==
    IF j > Len(moves) THEN [S |-> S, ret |-> TRUE]
    ELSE LET u == update(S, moves[j][1], moves[j][2], 1)
         IN  IF ~u.ret \/ u.S.status # "run" THEN [S |-> u.S, ret |-> FALSE]
             ELSE update_all(u.S, moves, j + 1)

\* update(v, n) for the moves <<v, n>> in turn, returning true at the first
\* update that succeeds and false at the end
update_first(S, moves, j) ==
    IF j > Len(moves) THEN [S |-> S, ret |-> FALSE]
    ELSE LET u == update(S, moves[j][1], moves[j][2], 1)
         IN  IF u.ret \/ u.S.status # "run" THEN u
             ELSE update_first(u.S, moves, j + 1)

\* the updates repair_add can choose, with sum the value of the right-hand
\* side and val the value of ad.m_var: <<>> stands for returning true at once
repair_add_moves(S, ad, sum, val) ==
    IF val = sum THEN {<<>>}
    ELSE {<<<<ad.m_var, sum>>>>}
         \cup { <<<<ad.m_args[j][2],
                   value(S, ad.m_args[j][2])
                     + (IF ~is_int(S, ad.m_args[j][2])
                        THEN quot(sum - val, ad.m_args[j][1])
                        ELSE IF round_down THEN div(sum - val, ad.m_args[j][1])
                        ELSE div(sum - val + ad.m_args[j][1] - 1,
                                 ad.m_args[j][1]))>>>> :
                j \in 1 .. Len(ad.m_args), round_down \in BOOLEAN }

\* repair_add(ad): every result the random draws allow; ctx.rand(0) on a
\* definition without arguments ends the program
repair_add(S, ad) ==
    { update_all(S, ms, 1) :
      ms \in repair_add_moves(S, ad, ad.m_coeff + args_sum(S, ad.m_args, 1),
                              value(S, ad.m_var)) }
    \cup (IF Len(ad.m_args) = 0
             /\ value(S, ad.m_var) # ad.m_coeff + args_sum(S, ad.m_args, 1)
          THEN {[S |-> abort(S), ret |-> FALSE]} ELSE {})

\* sqrt_next with a fault: x1 = div(x0, 2)
sqrt_next_half(n, x0) == div(x0, 2)

\* x1 = div(x0 + div(n, x0), num_t(2))
sqrt_next(n, x0) == div(x0 + div(n, x0), 2)

\* Newton iteration of sqrt from x0, x1
RECURSIVE sqrt_loop(_, _, _)
sqrt_loop(n, x0, x1) ==
    IF x1 < x0 THEN sqrt_loop(n, x1, sqrt_next(n, x1)) ELSE x0

\* sqrt(n): Newton function for integer square root
sqrt(n) ==
    IF n <= 1 THEN n
    ELSE sqrt_loop(n, div(n, 2), sqrt_next(n, div(n, 2)))

\* repair_square_root with a fault: always root + 1
repair_square_root_off(val, root) == {root + 1}

\* the value repair_square gives w for val = value(v) div coeff
repair_square_root(val, root) ==
    IF root * root = val THEN {root} ELSE { root + r3 - 1 : r3 \in Rand(3) }

repair_square_values(val) ==
    IF val < 0 THEN Rand(10)
    ELSE repair_square_root(val, sqrt(val)) \cup repair_square_root(val, -sqrt(val))

\* repair_square(md): every result the random draws allow
repair_square(S, md) ==
    IF ~is_int(S, md.m_var) \/ Len(md.m_monomial) # 2
       \/ md.m_monomial[1] # md.m_monomial[2]
    THEN {[S |-> S, ret |-> FALSE]}
    ELSE { [S |-> update(S, md.m_monomial[1], n, 1).S, ret |-> TRUE] :
           n \in repair_square_values(div(value(S, md.m_var), md.m_coeff)) }

\* product of value(u) over the variables u # w of the monomial, from i
RECURSIVE product_except(_, _, _, _)
product_except(S, monomial, w, i) ==
    IF i > Len(monomial) THEN 1
    ELSE (IF monomial[i] # w THEN value(S, monomial[i]) ELSE 1)
         * product_except(S, monomial, w, i + 1)

\* the updates repair_mul1 tries in turn, from round i of its loop
RECURSIVE repair_mul1_moves(_, _, _, _, _)
repair_mul1_moves(S, md, val, start, i) ==
    IF i >= Len(md.m_monomial) THEN <<>>
    ELSE LET w       == md.m_monomial[((start + i) % Len(md.m_monomial)) + 1]
             product == product_except(S, md.m_monomial, w, 1)
         IN  (IF product = 0 \/ ~divides(product, val) THEN <<>>
              ELSE <<<<w, div(val, product)>>>>)
             \o repair_mul1_moves(S, md, val, start, i + 1)

\* repair_mul1(md): every result the random start allows
repair_mul1(S, md) ==
    IF ~is_int(S, md.m_var) \/ div(value(S, md.m_var), md.m_coeff) = 0
    THEN {[S |-> S, ret |-> FALSE]}
    ELSE { update_first(S,
               repair_mul1_moves(S, md, div(value(S, md.m_var), md.m_coeff),
                                 start, 0), 1) :
           start \in Rand(Len(md.m_monomial)) }

\* while (mod(n, d) == 0) { m_factors.push_back(d); n = div(n, d); }, leaving
\* the rest of n and the factors; for n = 0 the loop does not end
RECURSIVE factor_out(_, _, _)
factor_out(n, d, fs) ==
    IF n # 0 /\ mod(n, d) = 0 THEN factor_out(div(n, d), d, Append(fs, d))
    ELSE [n |-> n, fs |-> fs]

increments == <<4, 2, 4, 2, 4, 6, 2, 6>>

\* the loop of factor over d = 7, 11, 13 (j < 3), and the last factor
RECURSIVE factor_from(_, _, _)
factor_from(r, d, j) ==
    IF d * d <= r.n /\ j < 3
    THEN factor_from(factor_out(r.n, d, r.fs), d + increments[j + 1], j + 1)
    ELSE [fs |-> IF r.n > 1 THEN Append(r.fs, r.n) ELSE r.fs, loops |-> FALSE]

\* the loop of factor over d in {2, 3, 5}, from its k-th element
RECURSIVE factor_small(_, _)
factor_small(r, k) ==
    IF k > 3 THEN r
    ELSE factor_small(factor_out(r.n, <<2, 3, 5>>[k], r.fs), k + 1)

\* factor(n): the factors fs, or no return at all (loops)
factor(n) ==
    IF n = 0 THEN [fs |-> <<>>, loops |-> TRUE]
    ELSE factor_from(factor_small([n |-> n, fs |-> <<>>], 1), 7, 0)

\* the signs repair_mul can give the factors of the monomial, from position i
RECURSIVE repair_mul_signs(_, _, _)
repair_mul_signs(S, monomial, i) ==
    IF i > Len(monomial) THEN {<<>>}
    ELSE { <<c>> \o rest :
           c \in (IF S.m_vars[monomial[i]].m_lo # <<>>
                     /\ S.m_vars[monomial[i]].m_lo[1].value >= 0 THEN {1}
                  ELSE IF S.m_vars[monomial[i]].m_hi # <<>>
                     /\ S.m_vars[monomial[i]].m_hi[1].value < 0 THEN {-1}
                  ELSE {1, -1}),
           rest \in repair_mul_signs(S, monomial, i + 1) }

\* coeffs[ctx.rand(sz)] *= f for the factors fs, from position k
RECURSIVE repair_mul_place(_, _, _)
repair_mul_place(coeffs, fs, k) ==
    IF k > Len(fs) THEN {coeffs}
    ELSE UNION { repair_mul_place([coeffs EXCEPT ![p] = @ * fs[k]], fs, k + 1) :
                 p \in 1 .. Len(coeffs) }

\* the vectors coeffs the last branch of repair_mul can build for the
\* quotient n with factors fs: sign0 is num_t sign, the product of coeffs taken while
\* every entry is still 1, and if ((sign == 0) != (n == 0)) negates one entry
repair_mul_coeffs(S, md, fs, n) ==
    LET sign0 == 1
    IN  UNION { IF (sign0 = 0) # (n = 0)
                THEN { [coeffs EXCEPT ![p] = -@] : p \in 1 .. Len(coeffs) }
                ELSE {coeffs} :
                coeffs \in UNION { repair_mul_place(sg, fs, 1) :
                                   sg \in repair_mul_signs(S, md.m_monomial, 1) } }

\* the last branch of repair_mul for the quotient n, once factor returned f
repair_mul_factors(S, md, f, n) ==
    IF f.loops THEN {[S |-> [S EXCEPT !.status = "diverged"], ret |-> FALSE]}
    ELSE { update_all(S, [i \in 1 .. Len(coeffs) |->
                             <<md.m_monomial[i], coeffs[i]>>], 1) :
           coeffs \in repair_mul_coeffs(S, md, f.fs, n) }

\* the last branch of repair_mul: the factors of val / coeff are spread over
\* the monomial
repair_mul_spread(S, md, val) ==
    IF ~is_int(S, md.m_var) THEN {[S |-> abort(S), ret |-> FALSE]}
    ELSE UNION { repair_mul_factors(S, md, factor(abs(n)), n) :
                 n \in {div(val, md.m_coeff)}
                       \cup (IF ~divides(md.m_coeff, val)
                             THEN {div(val + md.m_coeff - 1, md.m_coeff)}
                             ELSE {}) }

\* repair_mul after repair_square left o: ctx.rand(4) != 0 && repair_mul1(md),
\* else the last branch
repair_mul_after_square(o, md, val) ==
    IF ~repair_open(o) THEN {o}
    ELSE repair_mul_spread(o.S, md, val)
         \cup UNION { IF ~repair_open(o1) THEN {o1}
                      ELSE repair_mul_spread(o1.S, md, val) :
                      o1 \in repair_mul1(o.S, md) }

\* repair_mul(md) when the product differs from val = value(v)
repair_mul_to(S, md, product, val) ==
    {update_all(S, <<<<md.m_var, product>>>>, 1)}
    \cup (IF val = 0
          THEN { update_all(S, <<<<md.m_monomial[j], 0>>>>, 1) :
                 j \in 1 .. Len(md.m_monomial) }
          ELSE UNION { repair_mul_after_square(o, md, val) :
                       o \in repair_square(S, md) })

\* repair_mul(md): every result the random draws allow
repair_mul(S, md) ==
    IF md.m_coeff * monomial_prod(S, md.m_monomial, 1) = value(S, md.m_var)
    THEN {[S |-> S, ret |-> TRUE]}
    ELSE repair_mul_to(S, md, md.m_coeff * monomial_prod(S, md.m_monomial, 1),
                       value(S, md.m_var))

\* The updates a repair of an op definition can choose; <<>> stands for
\* returning true at once.  val = value(m_var), v1 = value(m_arg1),
\* v2 = value(m_arg2).
repair_rem(od, v1, v2) ==
    {<<<<od.m_var, IF v2 = 0 THEN 0 ELSE rem(v1, v2)>>>>}

repair_abs(od, val, v1) ==
    IF val < 0 THEN {<<<<od.m_var, abs(v1)>>>>}
    ELSE {<<<<od.m_arg1, val>>>>, <<<<od.m_arg1, -val>>>>}

repair_to_int(od, val, v1) ==
    IF val - 1 < v1 /\ v1 <= val THEN {<<>>} ELSE {<<<<od.m_arg1, val>>>>}

repair_to_real(od, v1) == {<<<<od.m_var, v1>>>>, <<<<od.m_arg1, v1>>>>}

repair_mod(od, val, v1, v2) ==
    IF val >= 0 /\ val < v2
    THEN IF mod(v1, v2) = val THEN {<<>>}
         ELSE { <<<<od.m_arg1, v1 + val - mod(v1, v2) + d>>>> : d \in {v2, -v2, 0} }
    ELSE {<<<<od.m_var, IF v2 = 0 THEN 0 ELSE mod(v1, v2)>>>>}

repair_idiv(od, v1, v2) ==
    {<<<<od.m_var, IF v2 = 0 THEN 0 ELSE div(v1, v2)>>>>}

repair_div(od, v1, v2) ==
    {<<<<od.m_var, IF v2 = 0 THEN 0 ELSE quot(v1, v2)>>>>}

\* repair_power either sets the result to 0 or is not implemented
repair_power(S, od) ==
    IF value(S, od.m_arg1) = 0 /\ value(S, od.m_arg2) = 0
    THEN {update_all(S, <<<<od.m_var, 0>>>>, 1)}
    ELSE {[S |-> abort(S), ret |-> FALSE]}

\* the repairs of repair_down's switch that end in at most one update
repair_op_moves(od, k, val, v1, v2) ==
    CASE k = "OP_MOD"     -> repair_mod(od, val, v1, v2)
      [] k = "OP_REM"     -> repair_rem(od, v1, v2)
      [] k = "OP_IDIV"    -> repair_idiv(od, v1, v2)
      [] k = "OP_DIV"     -> repair_div(od, v1, v2)
      [] k = "OP_ABS"     -> repair_abs(od, val, v1)
      [] k = "OP_TO_INT"  -> repair_to_int(od, val, v1)
      [] OTHER            -> repair_to_real(od, v1)

\* the switch of repair_down on the operator of v's definition
repair_down_var(S, vi) ==
    CASE vi.m_op = "LAST_ARITH_OP" -> {[S |-> S, ret |-> TRUE]}
      [] vi.m_op = "OP_ADD" -> repair_add(S, S.m_adds[vi.m_def_idx])
      [] vi.m_op = "OP_MUL" -> repair_mul(S, S.m_muls[vi.m_def_idx])
      [] vi.m_op = "OP_POWER" -> repair_power(S, S.m_ops[vi.m_def_idx])
      [] vi.m_op \in {"OP_MOD", "OP_REM", "OP_IDIV", "OP_DIV", "OP_ABS",
                      "OP_TO_INT", "OP_TO_REAL"} ->
            { update_all(S, ms, 1) :
              ms \in repair_op_moves(S.m_ops[vi.m_def_idx], vi.m_op,
                         value(S, S.m_ops[vi.m_def_idx].m_var),
                         value(S, S.m_ops[vi.m_def_idx].m_arg1),
                         value(S, S.m_ops[vi.m_def_idx].m_arg2)) }
      [] OTHER -> {[S |-> abort(S), ret |-> FALSE]}

\* repair_down(e): every result [S, ret] the random draws allow
repair_down(S, e) ==
    IF S.m_expr2var[e] = UINT_MAX THEN {[S |-> S, ret |-> FALSE]}
    ELSE IF S.m_vars[S.m_expr2var[e]].m_def_idx = UINT_MAX
    THEN {[S |-> S, ret |-> FALSE]}
    ELSE repair_down_var(S, S.m_vars[S.m_expr2var[e]])

\* -------------------------------------------------------------- initialize

add_le(S, v, n) ==
    IF S.m_vars[v].m_hi # <<>> /\ S.m_vars[v].m_hi[1].value <= n THEN S
    ELSE [S EXCEPT !.m_vars[v].m_hi = <<[is_strict |-> FALSE, value |-> n]>>]

\* add_ge with a fault: the bound recorded lies one above n
add_ge_above(S, v, n) ==
    [S EXCEPT !.m_vars[v].m_lo = <<[is_strict |-> FALSE, value |-> n + 1]>>]

add_ge(S, v, n) ==
    IF S.m_vars[v].m_lo # <<>> /\ S.m_vars[v].m_lo[1].value >= n THEN S
    ELSE [S EXCEPT !.m_vars[v].m_lo = <<[is_strict |-> FALSE, value |-> n]>>]

\* add_lt with a fault: the strict bound n, whatever the sort of v
add_lt_strict(S, v, n) ==
    [S EXCEPT !.m_vars[v].m_hi = <<[is_strict |-> TRUE, value |-> n]>>]

add_lt(S, v, n) ==
    IF is_int(S, v) THEN add_le(S, v, n - 1)
    ELSE [S EXCEPT !.m_vars[v].m_hi = <<[is_strict |-> TRUE, value |-> n]>>]

add_gt(S, v, n) ==
    IF is_int(S, v) THEN add_ge(S, v, n + 1)
    ELSE [S EXCEPT !.m_vars[v].m_lo = <<[is_strict |-> TRUE, value |-> n]>>]

\* initialize(lit) on the atom i of lit, when it has one argument (c, v) and
\* constant k
initialize_bound(S, lit, i, c, v, k) ==
    CASE i.m_op = "LE" ->
            IF lit.sign
            THEN (IF c = -1 THEN add_le(S, v, k)
                  ELSE IF c = 1 THEN add_ge(S, v, -k) ELSE S)
            ELSE (IF c = -1 THEN add_ge(S, v, k)
                  ELSE IF c = 1 THEN add_le(S, v, -k) ELSE S)
      [] i.m_op = "EQ" ->
            IF lit.sign THEN S
            ELSE (IF c = -1 THEN add_le(add_ge(S, v, k), v, k)
                  ELSE IF c = 1 THEN add_le(add_ge(S, v, -k), v, -k) ELSE S)
      [] OTHER ->
            IF lit.sign
            THEN (IF c = -1 THEN add_le(S, v, k)
                  ELSE IF c = 1 THEN add_ge(S, v, -k) ELSE S)
            ELSE (IF c = -1 THEN add_gt(S, v, k)
                  ELSE IF c = 1 THEN add_lt(S, v, -k) ELSE S)

\* initialize(lit) after init_bool_var(lit.var())
initialize_atom(S, lit) ==
    IF atom(S, lit.var) = <<>> THEN S
    ELSE IF Len(atom(S, lit.var)[1].m_args) # 1 THEN S
    ELSE initialize_bound(S, lit, atom(S, lit.var)[1],
                          atom(S, lit.var)[1].m_args[1][1],
                          atom(S, lit.var)[1].m_args[1][2],
                          atom(S, lit.var)[1].m_coeff)

\* initialize(): for (auto lit : ctx.unit_literals()) initialize(lit);
RECURSIVE initialize(_, _, _)
initialize(S, units, j) ==
    IF j > Len(units) THEN S
    ELSE initialize(initialize_atom(init_bool_var(S, units[j].var), units[j]),
                    units, j + 1)

\* ------------------------------------------------- register_term, set_value

is_arith_expr(x) ==
    x.k \in {"num", "add", "sub", "mul", "uminus", "mod", "idiv", "div",
             "rem", "power", "abs", "to_int", "to_real", "le", "ge", "lt", "gt"}

\* ctx.atom2bool_var(e): the Boolean variable whose atom is e (0: none)
atom2bool_var(e) ==
    IF \E bv \in 1 .. Len(Problems[problem].atoms) :
          Problems[problem].atoms[bv] = e
    THEN CHOOSE bv \in 1 .. Len(Problems[problem].atoms) :
          Problems[problem].atoms[bv] = e
    ELSE 0

RECURSIVE register_term_args(_, _, _)
register_term_args(S, es, j) ==
    IF j > Len(es) THEN S
    ELSE register_term_args(mk_term(S, es[j]).S, es, j + 1)

\* register_term after init_bool_var: the arguments of a non-arithmetic term
register_term_app(S, x) ==
    IF ~is_arith_expr(x) /\ x.k # "eq" THEN register_term_args(S, x.a, 1) ELSE S

register_term(S, e) ==
    register_term_app(IF atom2bool_var(e) # 0
                      THEN init_bool_var(S, atom2bool_var(e)) ELSE S,
                      ExprTab[e])

\* set_value_of with a fault: the value is not written
set_value_of_skip(r, n) == r.S

\* set_value after mk_term(e) returned r
set_value_of(r, n) ==
    IF n = value(r.S, r.v) THEN r.S ELSE update(r.S, r.v, n, 1).S

\* set_value(e, v) for the numeral v of value n
set_value(S, e, n) == set_value_of(mk_term(S, e), n)

\* ------------------------------------------------------------ the machine

NumBoolVars == Len(Problems[problem].atoms)

Literals == { Lit(bv, sgn) : bv \in 1 .. NumBoolVars, sgn \in BOOLEAN }

\* the terms the controller assigns and repairs
Terms == { Problems[problem].values[j] : j \in 1 .. Len(Problems[problem].values) }

Values == (-MaxVal) .. MaxVal

\* the explored part of the state space: every value within Values
Bounded(S) == \A v \in 1 .. Len(S.m_vars) : value(S, v) \in Values

Commit(S) ==
    /\ m_vars' = S.m_vars
    /\ m_bool_vars' = S.m_bool_vars
    /\ m_muls' = S.m_muls
    /\ m_adds' = S.m_adds
    /\ m_ops' = S.m_ops
    /\ m_expr2var' = S.m_expr2var
    /\ m_dscore_mode' = S.m_dscore_mode
    /\ truth' = S.truth
    /\ status' = S.status
    /\ UNCHANGED <<problem, call>>

Init ==
    /\ problem \in 1 .. Len(Problems)
    /\ m_vars = <<>>
    /\ m_bool_vars = [bv \in 1 .. Len(Problems[problem].atoms) |-> <<>>]
    /\ m_muls = <<>>
    /\ m_adds = <<>>
    /\ m_ops = <<>>
    /\ m_expr2var = [e \in 1 .. Len(ExprTab) |-> UINT_MAX]
    /\ m_dscore_mode = FALSE
    /\ truth \in [1 .. Len(Problems[problem].atoms) -> BOOLEAN]
    /\ status = "run"
    /\ call = NoCall

\* whether register_term(e) has run
is_registered(e) ==
    IF atom2bool_var(e) # 0 THEN m_bool_vars[atom2bool_var(e)] # <<>>
    ELSE \A j \in 1 .. Len(ExprTab[e].a) : m_expr2var[ExprTab[e].a[j]] # UINT_MAX

RegisterTerm(e) ==
    /\ status = "run"
    /\ ~is_registered(e)
    /\ LET S == register_term(Cur, e)
       IN  /\ Bounded(S)
           /\ Commit(S)

Initialize ==
    /\ status = "run"
    /\ LET S == initialize(Cur, Problems[problem].units, 1)
       IN  /\ Bounded(S)
           /\ Commit(S)

\* the value of term e in S (0 before e has a variable)
value_of(S, e) ==
    IF S.m_expr2var[e] = UINT_MAX THEN 0 ELSE value(S, S.m_expr2var[e])

SetValue(e, n) ==
    /\ status = "run"
    /\ m_expr2var[e] # UINT_MAX \/ ExprTab[e].k = "const"
    /\ LET S == set_value(Cur, e, n)
       IN  /\ Bounded(S)
           /\ Commit(S)

PropagateLiteral(lit) ==
    /\ status = "run"
    /\ \E S \in propagate_literal(Cur, lit) :
           /\ Bounded(S)
           /\ Commit(S)

RepairUp(e) ==
    /\ status = "run"
    /\ m_expr2var[e] # UINT_MAX
    /\ LET S == repair_up(Cur, e)
       IN  /\ Bounded(S)
           /\ Commit(S)

RepairLiteral(lit) ==
    /\ status = "run"
    /\ LET S == repair_literal(Cur, lit)
       IN  Commit(S)

RepairDown(e) ==
    /\ status = "run"
    /\ m_expr2var[e] # UINT_MAX
    /\ \E o \in repair_down(Cur, e) :
           /\ Bounded(o.S)
           /\ Commit(o.S)

OnRestart ==
    /\ status = "run"
    /\ LET S == on_restart(Cur)
       IN  Commit(S)

\* the controller's own search flips a Boolean variable
CtxFlip(bv) ==
    /\ status = "run"
    /\ LET S == [Cur EXCEPT !.truth[bv] = ~@]
       IN  Commit(S)

Next ==
    \/ \E j \in 1 .. Len(Problems[problem].terms) :
           RegisterTerm(Problems[problem].terms[j])
    \/ Initialize
    \/ \E e \in Terms, n \in Values : SetValue(e, n)
    \/ \E lit \in Literals : PropagateLiteral(lit)
    \/ \E e \in Terms : RepairUp(e)
    \/ \E e \in Terms : RepairDown(e)
    \/ \E lit \in Literals : RepairLiteral(lit)
    \/ OnRestart
    \/ \E bv \in 1 .. NumBoolVars : CtxFlip(bv)

Spec == Init /\ [][Next]_vars

\* ------------------------------------------- dtt, factor and sqrt by themselves

\* the arguments of dtt lie within -MaxArg .. MaxArg, those of factor and sqrt
\* within 0 .. MaxNum; num_t is checked_int_64 (one = 1) or rational, held as
\* numerators over the denominator one = 2 .. MaxDen
MaxArg == 3
MaxNum == 300
MaxDen == 2

PureCall(fn, in) ==
    [fn |-> fn, in |-> in, pc |-> "start", x0 |-> 0, x1 |-> 0, ret |-> 0,
     m_factors |-> <<>>]

PureCalls ==
    { PureCall("dtt", [sign |-> sg, op |-> op, args |-> a, coeff |-> k,
                       one |-> d]) :
          sg \in BOOLEAN, op \in {"LE", "EQ", "LT"},
          a \in (-MaxArg) .. MaxArg, k \in (-MaxArg) .. MaxArg,
          d \in 1 .. MaxDen }
    \cup { PureCall("factor", n) : n \in 0 .. MaxNum }
    \cup { PureCall("sqrt", n) : n \in 0 .. MaxNum }

engine == <<problem, m_vars, m_bool_vars, m_muls, m_adds, m_ops, m_expr2var,
            m_dscore_mode, truth, status>>

FnInit ==
    /\ problem = 1
    /\ m_vars = <<>>
    /\ m_bool_vars = [bv \in 1 .. Len(Problems[problem].atoms) |-> <<>>]
    /\ m_muls = <<>>
    /\ m_adds = <<>>
    /\ m_ops = <<>>
    /\ m_expr2var = [e \in 1 .. Len(ExprTab) |-> UINT_MAX]
    /\ m_dscore_mode = FALSE
    /\ truth = [bv \in 1 .. Len(Problems[problem].atoms) |-> FALSE]
    /\ status = "run"
    /\ call \in PureCalls

CallDtt ==
    /\ call.fn = "dtt"
    /\ call.pc = "start"
    /\ call' = [call EXCEPT
                   !.ret = dtt_num(call.in.sign, call.in.args,
                                   [m_op |-> call.in.op,
                                    m_coeff |-> call.in.coeff],
                                   call.in.one),
                   !.pc = "done"]
    /\ UNCHANGED engine

\* factor(n): for n = 0 the first while loop never ends
CallFactor ==
    /\ call.fn = "factor"
    /\ call.pc = "start"
    /\ call' = [call EXCEPT
                   !.m_factors = factor(call.in).fs,
                   !.pc = IF factor(call.in).loops THEN "diverged" ELSE "done"]
    /\ UNCHANGED engine

\* sqrt(n) up to the while loop
CallSqrt ==
    /\ call.fn = "sqrt"
    /\ call.pc = "start"
    /\ call' = IF call.in <= 1
               THEN [call EXCEPT !.ret = call.in, !.pc = "done"]
               ELSE [call EXCEPT !.x0 = div(call.in, 2),
                                 !.x1 = sqrt_next(call.in, div(call.in, 2)),
                                 !.pc = "while"]
    /\ UNCHANGED engine

\* one test of while (x1 < x0), and the loop body or the return
SqrtLoop ==
    /\ call.fn = "sqrt"
    /\ call.pc = "while"
    /\ call' = IF call.x1 < call.x0
               THEN [call EXCEPT !.x0 = call.x1,
                                 !.x1 = sqrt_next(call.in, call.x1)]
               ELSE [call EXCEPT !.ret = call.x0, !.pc = "done"]
    /\ UNCHANGED engine

FnNext ==
    \/ CallDtt
    \/ CallFactor
    \/ CallSqrt
    \/ SqrtLoop

\* a call that can take a step takes it
FnSpec == FnInit /\ [][FnNext]_vars /\ WF_vars(FnNext)

\* ------------------------------------------ the engine with reward calls

OnRescale ==
    /\ status = "run"
    /\ LET S == on_rescale(Cur)
       IN  Commit(S)

Reward(lit) ==
    /\ status = "run"
    /\ \E S \in reward(Cur, lit) : Commit(S)

\* the problems on which the reward calls are explored
RewardProblems == {19}

RewardInit == Init /\ problem \in RewardProblems

RewardNext ==
    \/ Next
    \/ OnRescale
    \/ \E lit \in Literals : Reward(lit)

RewardSpec == RewardInit /\ [][RewardNext]_vars

\* ------------------------------------------------------------- invariant()

\* invariant(ineq const& i): SASSERT(val == i.m_args_value)
invariant_ineq(S, i) == args_sum(S, i.m_args, 1) = i.m_args_value

\* invariant(), the loop over m_muls: SASSERT(prod == value(w))
invariant_mul(S, md) ==
    md.m_coeff * monomial_prod(S, md.m_monomial, 1) = value(S, md.m_var)

\* invariant(), the loop over m_adds: SASSERT(sum == value(ad.m_var))
invariant_add(S, ad) ==
    ad.m_coeff + args_sum(S, ad.m_args, 1) = value(S, ad.m_var)

\* the controller's truth of bv agrees with the atom of bv:
\* is_true(bv) == (dtt(false, A) == 0)
agrees(S, bv) ==
    atom(S, bv) # <<>> => (S.truth[bv] <=> dtt_ineq(FALSE, atom(S, bv)[1]) = 0)

\* the variables whose value differs between S and T
changed(S, T) == { v \in 1 .. Len(S.m_vars) : value(S, v) # value(T, v) }

\* the variables among the arguments of atom i
atom_vars(i) == { i.m_args[j][2] : j \in 1 .. Len(i.m_args) }

\* how often bv occurs in the sequence of requested flips
RECURSIVE flip_count(_, _, _)
flip_count(flips, bv, j) ==
    IF j > Len(flips) THEN 0
    ELSE (IF flips[j] = bv THEN 1 ELSE 0) + flip_count(flips, bv, j + 1)

\* ------------------------------------------------------------------ claims

\* C1: in every state the calls can reach, every atom A has
\* A.args_value == sum of c_i * value(v_i) over its arguments, also when the
\* same variable occurs more than once among them.
C1_args_value ==
    status = "run" =>
        \A bv \in 1 .. Len(m_bool_vars) :
            atom(Cur, bv) # <<>> => invariant_ineq(Cur, atom(Cur, bv)[1])

\* an atom with a variable occurring twice, over non-zero values
C1_witness ==
    /\ status = "run"
    /\ \E bv \in 1 .. Len(m_bool_vars) :
          /\ atom(Cur, bv) # <<>>
          /\ atom(Cur, bv)[1].m_args_value # 0
          /\ \E j, k \in 1 .. Len(atom(Cur, bv)[1].m_args) :
                /\ j # k
                /\ atom(Cur, bv)[1].m_args[j][2] = atom(Cur, bv)[1].m_args[k][2]
                /\ value(Cur, atom(Cur, bv)[1].m_args[j][2]) # 0

\* C2: whenever update(v, n) changes value(v), on return every atom listed in
\* v.bool_vars agrees with the controller, whether or not it agreed before;
\* a Boolean variable is flipped only if its atom has an argument that
\* changed, and its truth changes exactly when the truth it had disagrees
\* with the atom's new args_value (one flip when v is its only changed
\* argument and occurs once).
C2_update_agrees ==
    status = "run" =>
        \A v \in 1 .. Len(m_vars), n \in Values :
            LET u == update(Cur, v, n, 1).S
            IN  (u.status = "run" /\ value(u, v) # value(Cur, v)) =>
                /\ \A j \in 1 .. Len(m_vars[v].m_bool_vars) :
                       agrees(u, m_vars[v].m_bool_vars[j][2])
                /\ \A bv \in 1 .. Len(m_bool_vars) :
                       /\ flip_count(u.flips, bv, 1) > 0 =>
                              /\ atom(u, bv) # <<>>
                              /\ atom_vars(atom(u, bv)[1]) \cap changed(Cur, u) # {}
                       /\ (u.truth[bv] # truth[bv]) <=>
                              (flip_count(u.flips, bv, 1) % 2 = 1)
                       /\ (atom(u, bv) # <<>>
                             /\ atom_vars(atom(u, bv)[1]) \cap changed(Cur, u) # {}) =>
                              ((u.truth[bv] # truth[bv]) <=>
                                  (truth[bv] # ineq_is_true(atom(u, bv)[1])))
                       /\ (atom(u, bv) # <<>>
                             /\ atom_vars(atom(u, bv)[1]) \cap changed(Cur, u) = {v}
                             /\ Cardinality({ j \in 1 .. Len(atom(u, bv)[1].m_args) :
                                               atom(u, bv)[1].m_args[j][2] = v }) = 1) =>
                              (flip_count(u.flips, bv, 1) =
                                  IF truth[bv] # ineq_is_true(atom(u, bv)[1])
                                  THEN 1 ELSE 0)

\* update changes a value under an atom that disagreed with the controller
\* before the call and is not flipped, and under one that is flipped
C2_witness ==
    /\ status = "run"
    /\ \E v \in 1 .. Len(m_vars), n \in Values :
          LET u == update(Cur, v, n, 1).S
          IN  /\ u.status = "run"
              /\ value(u, v) # value(Cur, v)
              /\ \E j \in 1 .. Len(m_vars[v].m_bool_vars) :
                    /\ ~agrees(Cur, m_vars[v].m_bool_vars[j][2])
                    /\ u.flips = <<>>
    /\ \E v \in 1 .. Len(m_vars), n \in Values :
          update(Cur, v, n, 1).S.flips # <<>>

\* every add and mul definition satisfies its equation, and every value
\* lies within its bounds
consistent(S) ==
    /\ \A idx \in 1 .. Len(S.m_adds) : invariant_add(S, S.m_adds[idx])
    /\ \A idx \in 1 .. Len(S.m_muls) : invariant_mul(S, S.m_muls[idx])
    /\ \A v \in 1 .. Len(S.m_vars) : in_bounds(S, v, value(S, v))

\* C3: from a state in which every definition holds, after update(v, n)
\* returns every add definition with v among its summands satisfies
\* value(r) == k + sum of c_i * value(v_i), also when the new sum equals k.
C3_add_defs ==
    (status = "run" /\ consistent(Cur)) =>
        \A v \in 1 .. Len(m_vars), n \in Values :
            LET u == update(Cur, v, n, 1).S
            IN  u.status = "run" =>
                \A j \in 1 .. Len(m_vars[v].m_adds) :
                    invariant_add(u, u.m_adds[m_vars[v].m_adds[j]])

\* C4: from a state in which every definition holds, after update(v, n)
\* returns every mul definition with v among its factors satisfies
\* value(r) == k * product of value(v_i), also when r carries bounds.
C4_mul_defs ==
    (status = "run" /\ consistent(Cur)) =>
        \A v \in 1 .. Len(m_vars), n \in Values :
            LET u == update(Cur, v, n, 1).S
            IN  u.status = "run" =>
                \A j \in 1 .. Len(m_vars[v].m_muls) :
                    invariant_mul(u, u.m_muls[m_vars[v].m_muls[j]])

\* every add and mul definition of S satisfies its equation
C5_defs_of(S) ==
    /\ \A idx \in 1 .. Len(S.m_adds) : invariant_add(S, S.m_adds[idx])
    /\ \A idx \in 1 .. Len(S.m_muls) : invariant_mul(S, S.m_muls[idx])

\* C5 as stated: after every call that returns, every add and mul
\* definition satisfies its equation.
C5_defs_hold == status = "run" => C5_defs_of(Cur)

\* the variables a definition of v reads (none without an add or mul
\* definition)
def_inputs(S, v) ==
    CASE S.m_vars[v].m_op = "OP_ADD" ->
            atom_vars(S.m_adds[S.m_vars[v].m_def_idx])
      [] S.m_vars[v].m_op = "OP_MUL" ->
            { S.m_muls[S.m_vars[v].m_def_idx].m_monomial[j] :
              j \in 1 .. Len(S.m_muls[S.m_vars[v].m_def_idx].m_monomial) }
      [] OTHER -> {}

\* the terms with a variable that is the result of an add or mul definition
def_outputs(S) ==
    { e \in 1 .. Len(ExprTab) :
        /\ S.m_expr2var[e] # UINT_MAX
        /\ S.m_vars[S.m_expr2var[e]].m_op \in {"OP_ADD", "OP_MUL"} }

\* C5, amended: the definition equations are not invariants of the calls,
\* because update carries a change from the inputs of a definition to its
\* result only.  set_value(e, n) on the result r of an add or mul definition,
\* with n within r's bounds, sets value(r) = n and leaves the inputs of the
\* definition unchanged; propagate_literal on an atom whose only variable is
\* such a result leaves the inputs unchanged too.
C5_output_written ==
    status = "run" =>
        /\ \A e \in def_outputs(Cur), n \in Values :
              LET r == m_expr2var[e]
                  T == set_value(Cur, e, n)
              IN  (T.status = "run" /\ in_bounds(Cur, r, n)) =>
                      /\ value(T, r) = n
                      /\ def_inputs(Cur, r) \cap changed(Cur, T) = {}
        /\ \A lit \in Literals :
              (/\ atom(Cur, lit.var) # <<>>
               /\ \E e \in def_outputs(Cur) :
                      atom_vars(atom(Cur, lit.var)[1]) = {m_expr2var[e]}) =>
                  \A T \in propagate_literal(Cur, lit) :
                      T.status = "run" =>
                          \A v \in atom_vars(atom(Cur, lit.var)[1]) :
                              def_inputs(Cur, v) \cap changed(Cur, T) = {}

\* a definition that holds is broken by set_value on its result, and one by
\* propagate_literal moving its result
C5_witness ==
    /\ status = "run"
    /\ consistent(Cur)
    /\ \E e \in def_outputs(Cur), n \in Values :
          LET T == set_value(Cur, e, n)
          IN  /\ T.status = "run"
              /\ value(T, m_expr2var[e]) = n
              /\ n # value(Cur, m_expr2var[e])
              /\ ~C5_defs_of(T)
    /\ \E lit \in Literals :
          /\ atom(Cur, lit.var) # <<>>
          /\ \E e \in def_outputs(Cur) :
                /\ atom_vars(atom(Cur, lit.var)[1]) = {m_expr2var[e]}
                /\ \E T \in propagate_literal(Cur, lit) :
                      /\ T.status = "run"
                      /\ m_expr2var[e] \in changed(Cur, T)
                      /\ ~C5_defs_of(T)

\* lo.value <= value(v) <= hi.value in S, strict where the bound is strict
within_bounds(S, v) ==
    /\ S.m_vars[v].m_lo # <<>> =>
          IF S.m_vars[v].m_lo[1].is_strict
          THEN S.m_vars[v].m_lo[1].value < value(S, v)
          ELSE S.m_vars[v].m_lo[1].value <= value(S, v)
    /\ S.m_vars[v].m_hi # <<>> =>
          IF S.m_vars[v].m_hi[1].is_strict
          THEN value(S, v) < S.m_vars[v].m_hi[1].value
          ELSE value(S, v) <= S.m_vars[v].m_hi[1].value

\* C6 as stated: after every call that returns, every bounded variable has
\* its value within its bounds.
C6_within_bounds ==
    status = "run" => \A v \in 1 .. Len(m_vars) : within_bounds(Cur, v)

\* C6, amended: initialize() derives bounds and changes no value, so that a
\* variable can lie outside its bounds right after it; every value that a
\* call of update assigns lies within the bounds of its variable.
C6_update_within_bounds ==
    status = "run" =>
        /\ LET T == initialize(Cur, Problems[problem].units, 1)
           IN  T.status = "run" =>
                   \A v \in 1 .. Len(m_vars) : value(T, v) = value(Cur, v)
        /\ \A v \in 1 .. Len(m_vars), n \in Values :
              LET u == update(Cur, v, n, 1).S
              IN  u.status = "run" =>
                      \A w \in changed(Cur, u) : within_bounds(u, w)

\* initialize has left a variable below its lower bound, and an update to a
\* value outside that bound moves the variable to a value within
C6_witness ==
    /\ status = "run"
    /\ \E v \in 1 .. Len(m_vars) :
          /\ ~within_bounds(Cur, v)
          /\ \E n \in Values :
                /\ ~within_bounds([Cur EXCEPT !.m_vars[v].m_value = n], v)
                /\ v \in changed(Cur, update(Cur, v, n, 1).S)

\* C7: after propagate_literal(lit) returns, for a literal lit, positive or
\* negated, that the controller holds true and whose variable has an atom A,
\* the controller's truth of lit.var() agrees with the truth of A.
C7_propagate_agrees ==
    status = "run" =>
        \A lit \in Literals :
            (ctx_is_true(Cur, lit) /\ atom(Cur, lit.var) # <<>>) =>
                \A T \in propagate_literal(Cur, lit) :
                    T.status = "run" => agrees(T, lit.var)

\* C8: update(v, value(v)) returns true and changes no value, no args_value
\* and no Boolean truth, requests no flip and sends no new_value_eh, also
\* when value(v) is outside the bounds of v.
C8_update_same_value ==
    status = "run" =>
        \A v \in 1 .. Len(m_vars) :
            update(Cur, v, value(Cur, v), 1) = [S |-> Cur, ret |-> TRUE]

\* a variable whose value is outside its bounds
C8_witness ==
    /\ status = "run"
    /\ \E v \in 1 .. Len(m_vars) :
          /\ ~within_bounds(Cur, v)
          /\ update(Cur, v, value(Cur, v), 1).ret

\* the registered terms whose variable has a definition with operator in ops
defined_terms(S, ops) ==
    { e \in 1 .. Len(ExprTab) :
        /\ S.m_expr2var[e] # UINT_MAX
        /\ S.m_vars[S.m_expr2var[e]].m_def_idx # UINT_MAX
        /\ S.m_vars[S.m_expr2var[e]].m_op \in ops }

\* C9: for every registered term e with an add, mul, mod, idiv, div, rem or
\* abs definition, in every state, repair_up(e) twice in a row leaves the
\* same values and the same Boolean truths as repair_up(e) once.
C9_repair_up_idempotent ==
    status = "run" =>
        \A e \in defined_terms(Cur, {"OP_ADD", "OP_MUL", "OP_MOD", "OP_IDIV",
                                     "OP_DIV", "OP_REM", "OP_ABS"}) :
            LET T1 == repair_up(Cur, e)
                T2 == repair_up(T1, e)
            IN  (T1.status = "run" /\ T2.status = "run") =>
                    /\ changed(T1, T2) = {}
                    /\ T2.truth = T1.truth

\* the value of e = x op y computed from the values of its operands x and y
op_of_operands(S, e) ==
    LET v1 == value_of(S, ExprTab[e].a[1])
        v2 == IF Len(ExprTab[e].a) > 1 THEN value_of(S, ExprTab[e].a[2]) ELSE 0
    IN  CASE ExprTab[e].k = "abs"  -> abs(v1)
          [] v2 = 0                -> 0
          [] ExprTab[e].k = "mod"  -> mod(v1, v2)
          [] ExprTab[e].k = "idiv" -> div(v1, v2)
          [] ExprTab[e].k = "div"  -> quot(v1, v2)
          [] OTHER                 -> rem(v1, v2)

\* C10: for a term e = x op y with op among mod, idiv, div, rem, and for
\* e = abs(x), repair_up(e) sets value(e) to op(value(x), value(y)), and to 0
\* when value(y) = 0.
C10_repair_up_operands ==
    status = "run" =>
        \A e \in defined_terms(Cur, {"OP_MOD", "OP_IDIV", "OP_DIV", "OP_REM",
                                     "OP_ABS"}) :
            LET T == repair_up(Cur, e)
            IN  T.status = "run" => value_of(T, e) = op_of_operands(Cur, e)

\* lo and hi are both present with equal values and value(v) equals them
fixed(S, v) ==
    /\ S.m_vars[v].m_lo # <<>>
    /\ S.m_vars[v].m_hi # <<>>
    /\ S.m_vars[v].m_lo[1].value = S.m_vars[v].m_hi[1].value
    /\ value(S, v) = S.m_vars[v].m_lo[1].value

\* C11: for a fixed variable v, cm on any atom with pivot v returns false,
\* update(v, n) with n # value(v) returns false and leaves every value, every
\* args_value and every Boolean truth unchanged, and an update of any other
\* variable (such as an input of a definition of v) leaves value(v) unchanged.
C11_fixed_unchanged ==
    status = "run" =>
        \A v \in 1 .. Len(m_vars) :
            fixed(Cur, v) =>
                /\ \A bv \in 1 .. Len(m_bool_vars) :
                      (atom(Cur, bv) # <<>> /\ v \in atom_vars(atom(Cur, bv)[1])) =>
                          \A c \in cm_var(Cur, atom(Cur, bv)[1], v) :
                              ~c.ok /\ ~c.abort
                /\ \A n \in Values \ {value(Cur, v)} :
                      update(Cur, v, n, 1) = [S |-> Cur, ret |-> FALSE]
                /\ \A w \in 1 .. Len(m_vars), n \in Values :
                      value(update(Cur, w, n, 1).S, v) = value(Cur, v)

\* a fixed variable that is the result of a mul definition whose value no
\* longer equals the product after an update of one of its factors
C11_witness ==
    /\ status = "run"
    /\ \E v \in 1 .. Len(m_vars) :
          /\ fixed(Cur, v)
          /\ m_vars[v].m_op = "OP_MUL"
          /\ m_vars[v].m_bool_vars # <<>>
          /\ \E w \in def_inputs(Cur, v), n \in Values :
                LET u == update(Cur, w, n, 1).S
                IN  /\ u.status = "run"
                    /\ value(u, w) = n
                    /\ n # value(Cur, w)
                    /\ ~invariant_mul(u, u.m_muls[m_vars[v].m_def_idx])

\* the value n lies within the bounds of v in S
value_within(S, v, n) == within_bounds([S EXCEPT !.m_vars[v].m_value = n], v)

\* what C12 states of update(v, n) for n outside the bounds of v
C12_outcome(v, n) ==
    LET u   == update(Cur, v, n, 1)
        int == m_vars[v].m_sort = "INT"
        lo  == m_vars[v].m_lo
        hi  == m_vars[v].m_hi
        old == value(Cur, v)
    IN  u.S.status = "run" =>
        IF int /\ lo # <<>> /\ ~lo[1].is_strict /\ n < lo[1].value
        THEN IF old # lo[1].value THEN value(u.S, v) = lo[1].value
             ELSE IF value_within(Cur, v, old + 1) THEN value(u.S, v) = old + 1
             ELSE u = [S |-> Cur, ret |-> FALSE]
        ELSE IF int /\ hi # <<>> /\ ~hi[1].is_strict /\ n > hi[1].value
        THEN IF old # hi[1].value THEN value(u.S, v) = hi[1].value
             ELSE IF value_within(Cur, v, old - 1) THEN value(u.S, v) = old - 1
             ELSE u = [S |-> Cur, ret |-> FALSE]
        ELSE u = [S |-> Cur, ret |-> FALSE]

C12_outcome_bounds(v, n) ==
    LET u   == update(Cur, v, n, 1)
        int == m_vars[v].m_sort = "INT"
        lo  == m_vars[v].m_lo
        hi  == m_vars[v].m_hi
        old == value(Cur, v)
    IN  u.S.status = "run" =>
        IF int /\ lo # <<>> /\ ~lo[1].is_strict /\ n < lo[1].value
        THEN IF old # lo[1].value /\ value_within(Cur, v, lo[1].value)
             THEN value(u.S, v) = lo[1].value
             ELSE IF old = lo[1].value /\ value_within(Cur, v, old + 1)
             THEN value(u.S, v) = old + 1
             ELSE u = [S |-> Cur, ret |-> FALSE]
        ELSE IF int /\ hi # <<>> /\ ~hi[1].is_strict /\ n > hi[1].value
        THEN IF old # hi[1].value /\ value_within(Cur, v, hi[1].value)
             THEN value(u.S, v) = hi[1].value
             ELSE IF old = hi[1].value /\ value_within(Cur, v, old - 1)
             THEN value(u.S, v) = old - 1
             ELSE u = [S |-> Cur, ret |-> FALSE]
        ELSE u = [S |-> Cur, ret |-> FALSE]

RECURSIVE coeff_of(_, _, _)
coeff_of(i, v, j) ==
    IF j > Len(i.m_args) THEN 0
    ELSE (IF i.m_args[j][2] = v THEN i.m_args[j][1] ELSE 0) + coeff_of(i, v, j + 1)

\* moving v to n changes the truth of atom i in S
transition(S, i, v, n) ==
    ineq_is_true([i EXCEPT !.m_args_value =
                     @ + coeff_of(i, v, 1) * (n - value(S, v))])
        # ineq_is_true(i)

\* C13 as stated: in every state, also when value(v) lies outside the bounds
\* of v, cm(A, v, new_value) returns true iff the final new_value lies
\* within the bounds of v and changes the truth of A.
C13_cm_success ==
    status = "run" =>
        \A bv \in 1 .. Len(m_bool_vars) :
            atom(Cur, bv) # <<>> =>
                \A v \in atom_vars(atom(Cur, bv)[1]) :
                    \A c \in cm_var(Cur, atom(Cur, bv)[1], v) :
                        ~c.abort =>
                            (c.ok <=>
                                (/\ value_within(Cur, v, c.new_value)
                                 /\ transition(Cur, atom(Cur, bv)[1], v,
                                               c.new_value)))

\* C13, amended: cm returns true iff the final new_value changes the truth
\* of A and either lies within the bounds of v or value(v) itself lies
\* outside them (cm then returns the tentative value unclamped).
C13_cm_success_from_bounds ==
    status = "run" =>
        \A bv \in 1 .. Len(m_bool_vars) :
            atom(Cur, bv) # <<>> =>
                \A v \in atom_vars(atom(Cur, bv)[1]) :
                    \A c \in cm_var(Cur, atom(Cur, bv)[1], v) :
                        ~c.abort =>
                            (c.ok <=>
                                (/\ transition(Cur, atom(Cur, bv)[1], v,
                                               c.new_value)
                                 /\ \/ value_within(Cur, v, c.new_value)
                                    \/ ~within_bounds(Cur, v)))

\* from a value outside the bounds cm succeeds with a value outside them;
\* from a value within the bounds cm fails after clamping
C13_witness ==
    /\ status = "run"
    /\ \E bv \in 1 .. Len(m_bool_vars) :
          /\ atom(Cur, bv) # <<>>
          /\ \E v \in atom_vars(atom(Cur, bv)[1]) :
                /\ ~within_bounds(Cur, v)
                /\ \E c \in cm_var(Cur, atom(Cur, bv)[1], v) :
                      c.ok /\ ~value_within(Cur, v, c.new_value)

\* the entry of the table of dtt for op, sign, args_value a and coefficient k,
\* as the table is written, where one stands for 1
dtt_table(op, sgn, a, k, one) ==
    CASE op = "LE" ->
            IF ~sgn THEN (IF a + k > 0 THEN a + k ELSE 0)
            ELSE (IF a + k > 0 THEN 0 ELSE -k - a + one)
      [] op = "LT" ->
            IF ~sgn THEN (IF a + k + one > 0 THEN a + k + one ELSE 0)
            ELSE (IF a + k >= 0 THEN 0 ELSE -k - a)
      [] OTHER ->
            IF ~sgn THEN (IF a + k = 0 THEN 0 ELSE one)
            ELSE (IF a + k # 0 THEN 0 ELSE one)

\* C14 as stated: for every op, both signs and every integer or rational
\* args_value, dtt(sign, args_value, A) is the entry of the table.
C14_dtt_table ==
    (call.fn = "dtt" /\ call.pc = "done") =>
        call.ret = dtt_table(call.in.op, call.in.sign, call.in.args,
                             call.in.coeff, call.in.one)

\* C14, amended: dtt is the entry of the table for every op, both signs and
\* every integer args_value; for a rational args_value it is the entry too,
\* except that for < and sign = false it is 0 when args_value + k < 0 and
\* args_value + k + 1 otherwise.
C14_dtt_table_integer ==
    (call.fn = "dtt" /\ call.pc = "done") =>
        call.ret =
            IF call.in.op = "LT" /\ ~call.in.sign /\ call.in.one > 1
            THEN (IF call.in.args + call.in.coeff < 0 THEN 0
                  ELSE call.in.args + call.in.coeff + call.in.one)
            ELSE dtt_table(call.in.op, call.in.sign, call.in.args,
                           call.in.coeff, call.in.one)

\* dtt has returned for a true < atom over the rationals whose
\* args_value + k lies strictly between -1 and 0
C14_witness ==
    /\ call.fn = "dtt"
    /\ call.pc = "done"
    /\ call.in.op = "LT"
    /\ ~call.in.sign
    /\ call.in.one > 1
    /\ call.in.args + call.in.coeff < 0
    /\ call.in.args + call.in.coeff + call.in.one > 0

\* the product of the numbers of fs from position j on
RECURSIVE factors_product(_, _)
factors_product(fs, j) ==
    IF j > Len(fs) THEN 1 ELSE fs[j] * factors_product(fs, j + 1)

\* C19: for every n >= 0 that factor is applied to (the absolute value of
\* an integer), factor returns a list whose product is n.
C19_factor_product ==
    (call.fn = "factor" /\ call.pc # "start") =>
        /\ call.pc = "done"
        /\ factors_product(call.m_factors, 1) = call.in

\* C19 for n >= 1
C19_factor_product_positive ==
    (call.fn = "factor" /\ call.pc # "start" /\ call.in >= 1) =>
        /\ call.pc = "done"
        /\ factors_product(call.m_factors, 1) = call.in

\* C20: for every integer n >= 0 the loop of sqrt ends, and the value r
\* that sqrt returns satisfies r * r <= n < (r + 1) * (r + 1).
C20_sqrt_bracket ==
    /\ [](call.fn = "sqrt" /\ call.pc = "done" =>
            /\ call.ret = sqrt(call.in)
            /\ call.ret * call.ret <= call.in
            /\ call.in < (call.ret + 1) * (call.ret + 1))
    /\ (call.fn = "sqrt" ~> call.pc = "done")

\* sqrt has returned after at least one round of its loop, for an n that is
\* not a square
C20_witness ==
    /\ call.fn = "sqrt"
    /\ call.pc = "done"
    /\ call.ret < div(call.in, 2)
    /\ call.ret * call.ret < call.in

\* the bound add_le / add_ge leave when asked for n: the bound b there
\* was, if it is at least as tight (tighter is TRUE), else the non-strict n
kept_bound(b, n, tighter) ==
    IF b # <<>> /\ tighter THEN b ELSE <<[is_strict |-> FALSE, value |-> n]>>

\* C15: no bound of an integer variable is strict, and add_lt(v, n),
\* add_gt(v, n) on an integer v leave the non-strict upper bound n - 1 and
\* the non-strict lower bound n + 1 (or the tighter bound already there).
C15_integer_bounds_non_strict ==
    \A v \in 1 .. Len(m_vars) :
        is_int(Cur, v) =>
            /\ \A b \in {m_vars[v].m_lo, m_vars[v].m_hi} :
                  b # <<>> => ~b[1].is_strict
            /\ \A n \in Values :
                  /\ add_lt(Cur, v, n).m_vars =
                        [m_vars EXCEPT ![v].m_hi =
                            kept_bound(@, n - 1, @ # <<>> /\ @[1].value <= n - 1)]
                  /\ add_gt(Cur, v, n).m_vars =
                        [m_vars EXCEPT ![v].m_lo =
                            kept_bound(@, n + 1, @ # <<>> /\ @[1].value >= n + 1)]

\* initialize has given the integer x the bound of the unit literal x < 1:
\* the non-strict upper bound 0
C15_witness ==
    /\ Len(Problems[problem].atoms) >= 1
    /\ ExprTab[Problems[problem].atoms[1]].k = "lt"
    /\ Len(m_vars) >= 1
    /\ is_int(Cur, 1)
    /\ m_vars[1].m_hi = <<[is_strict |-> FALSE, value |-> 0]>>

\* S once dtt_reward chose v as the variable to flip of the atom of bv
with_var_to_flip(S, bv, v) == [S EXCEPT !.m_bool_vars[bv][1].m_var_to_flip = v]

\* the atom 2x + 3y = 7 is registered, and x = 0, y = 0
at_2x_3y_7 ==
    /\ status = "run"
    /\ Problems[problem].atoms = <<38>>
    /\ atom(Cur, 1) # <<>>
    /\ value(Cur, 1) = 0
    /\ value(Cur, 2) = 0

\* C16 as stated, in its weakest reading: for the atom 2x + 3y = 7 from
\* x = 0, y = 0, solve_eq_pairs can succeed, for some pivot and some random
\* start, and leave the atom true.
C16_solve_eq_pairs_succeeds ==
    at_2x_3y_7 =>
        \E v \in 1 .. 2 :
            \E o \in solve_eq_pairs(with_var_to_flip(Cur, 1, v), 1) :
                o.ret /\ ineq_is_true(atom(o.S, 1)[1])

\* C16, amended: for the atom 2x + 3y = 7 from x = 0, y = 0, solve_eq_pairs
\* returns false and changes nothing, whichever variable is the pivot and
\* whatever the random start; cm finds no move for either variable; and
\* repair_eq returns false, so the atom stays false.
C16_solve_eq_pairs_rejects ==
    at_2x_3y_7 =>
        \A v \in 1 .. 2 :
            /\ solve_eq_pairs(with_var_to_flip(Cur, 1, v), 1) =
                   {[S |-> with_var_to_flip(Cur, 1, v), ret |-> FALSE]}
            /\ \A c \in cm_var(Cur, atom(Cur, 1)[1], v) : ~c.ok /\ ~c.abort
            /\ repair_eq(with_var_to_flip(Cur, 1, v), Lit(1, FALSE)) =
                   {[S |-> with_var_to_flip(Cur, 1, v), ret |-> FALSE]}

\* repair has run on 2x + 3y = 7 at x = 0, y = 0: dtt_reward chose a pivot
\* and the atom is still false
C16_witness ==
    /\ at_2x_3y_7
    /\ atom(Cur, 1)[1].m_var_to_flip # UINT_MAX
    /\ ~ineq_is_true(atom(Cur, 1)[1])

\* the variables defined, through at most d definitions, from those of V
RECURSIVE outputs_of(_, _, _)
outputs_of(S, V, d) ==
    IF d = 0 THEN V
    ELSE outputs_of(S, V \cup { w \in 1 .. Len(S.m_vars) :
                                  def_inputs(S, w) \cap V # {} }, d - 1)

\* the value of v that solves the equality i, v having coefficient 1 or -1
eq_solution(S, i, v) ==
    value(S, v) - coeff_of(i, v, 1) * (i.m_args_value + i.m_coeff)

\* the atom of bv is a false equality, in which v, not fixed, occurs once,
\* with coefficient 1 or -1, and the value of v that solves it lies within
\* the bounds of v
eq_pivot_case(bv, v) ==
    /\ status = "run"
    /\ atom(Cur, bv) # <<>>
    /\ atom(Cur, bv)[1].m_op = "EQ"
    /\ ~ineq_is_true(atom(Cur, bv)[1])
    /\ v \in atom_vars(atom(Cur, bv)[1])
    /\ ~fixed(Cur, v)
    /\ Cardinality({ j \in 1 .. Len(atom(Cur, bv)[1].m_args) :
                       atom(Cur, bv)[1].m_args[j][2] = v }) = 1
    /\ coeff_of(atom(Cur, bv)[1], v, 1) \in {1, -1}
    /\ value_within(Cur, v, eq_solution(Cur, atom(Cur, bv)[1], v))

MaxRoot == 4

\* the mul definitions r = k * w * w of S over an integer r
square_defs(S) ==
    { idx \in 1 .. Len(S.m_muls) :
        /\ is_int(S, S.m_muls[idx].m_var)
        /\ Len(S.m_muls[idx].m_monomial) = 2
        /\ S.m_muls[idx].m_monomial[1] = S.m_muls[idx].m_monomial[2] }

unit_atom(S, op, c, v, k) ==
    [new_ineq(op, k) EXCEPT !.m_args = <<<<c, v>>>>,
                            !.m_args_value = c * value(S, v)]

\* the coefficients cm is tried with: any for an integer pivot, 1 and -1 for
\* a real pivot, whose quotient delta / coeff is then exact
MaxCoeff == 3

pivot_coeffs(S, v) ==
    IF is_int(S, v) THEN ((-MaxCoeff) .. MaxCoeff) \ {0} ELSE {-1, 1}

\* every tentative value cm computes for atom i and pivot v is well formed
\* and no VERIFY of cm fails
cm_tentative_ok(S, i, v, coeff) ==
    \A t \in cm_values(S, i, v, coeff, -i.m_coeff, i.m_args_value,
                        i.m_args_value + i.m_coeff, value(S, v)) :
        /\ t.st # "abort"
        /\ t.st = "bounds" => well_formed(S, i, v, coeff, t.n)

eq_pairs(S) ==
    { p \in (1 .. Len(S.m_vars)) \X (1 .. Len(S.m_vars)) :
        /\ p[1] # p[2]
        /\ is_int(S, p[1])
        /\ is_int(S, p[2])
        /\ ~is_fixed(S, p[1]) }

pair_coeffs == ((-MaxCoeff) .. MaxCoeff) \ {-1, 0, 1}

\* C22: whenever solve_eq_pairs(a, x, b, y, r) returns true, afterwards
\* a * value(x) + b * value(y) = r and x and y lie within their bounds; and
\* it returns false, changing nothing, when gcd(a, b) does not divide r.
C22_solve_eq_pairs_solves ==
    status = "run" =>
        \A p \in eq_pairs(Cur) :
            \A a \in pair_coeffs, b \in pair_coeffs, r \in (-MaxCoeff) .. MaxCoeff :
                /\ (/\ solve_eq_pairs2(Cur, a, p[1], b, p[2], r).ret
                    /\ solve_eq_pairs2(Cur, a, p[1], b, p[2], r).S.status = "run") =>
                       /\ a * value(solve_eq_pairs2(Cur, a, p[1], b, p[2], r).S, p[1])
                          + b * value(solve_eq_pairs2(Cur, a, p[1], b, p[2], r).S, p[2])
                          = r
                       /\ within_bounds(solve_eq_pairs2(Cur, a, p[1], b, p[2], r).S, p[1])
                       /\ within_bounds(solve_eq_pairs2(Cur, a, p[1], b, p[2], r).S, p[2])
                /\ ~divides(ext_gcd(a, b).g, r) =>
                       solve_eq_pairs2(Cur, a, p[1], b, p[2], r) =
                           [S |-> Cur, ret |-> FALSE]

\* the part of C22 that holds: solve_eq_pairs(a, x, b, y, r) returns false,
\* changing nothing, when gcd(a, b) does not divide r
C22_solve_eq_pairs_no_divisor ==
    status = "run" =>
        \A p \in eq_pairs(Cur) :
            \A a \in pair_coeffs, b \in pair_coeffs, r \in (-MaxCoeff) .. MaxCoeff :
                ~divides(ext_gcd(a, b).g, r) =>
                    solve_eq_pairs2(Cur, a, p[1], b, p[2], r) =
                        [S |-> Cur, ret |-> FALSE]

\* the literal of atom bv that the solver holds true
true_lit(S, bv) == Lit(bv, ~S.truth[bv])

\* the states repair(lit, ineq) leaves on the paths where no strategy
\* succeeds: dtt_reward picked a pivot, repair_eq returned false and cm
\* failed on the pivot
repair_failed(S, lit) ==
    UNION { UNION { { repair_end([S |-> cm_update(o.S,
                                     atom(o.S, lit.var)[1].m_var_to_flip, c).S,
                                  ret |-> TRUE], lit).S :
                      c \in { c \in cm_var(o.S, atom(o.S, lit.var)[1],
                                            atom(o.S, lit.var)[1].m_var_to_flip) :
                              ~c.ok /\ ~c.abort } } :
                    o \in { o \in repair_eq(S1, lit) : repair_open(o) } } :
            S1 \in { S1 \in dtt_reward(S, lit.var) :
                     /\ S1.status = "run"
                     /\ atom(S1, lit.var)[1].m_var_to_flip # UINT_MAX } }

\* the states repair(lit, ineq) leaves when dtt_reward selects no pivot
repair_no_pivot(S, lit) ==
    { S1 \in dtt_reward(S, lit.var) :
        /\ S1.status = "run"
        /\ atom(S1, lit.var)[1].m_var_to_flip = UINT_MAX }

\* T is S up to the truth value of bv, the record of flips and the
\* m_var_to_flip of bv's atom
same_model(S, T, bv) ==
    with_var_to_flip([T EXCEPT !.truth[bv] = S.truth[bv], !.flips = S.flips],
                     bv, atom(S, bv)[1].m_var_to_flip) = S

\* C23: when no strategy succeeds inside repair(lit, A) (repair_eq returns
\* false and cm fails on the selected pivot, or no pivot is selected), no
\* variable value, no bound and no args_value changes: the state differs at
\* most in the truth value of lit.var() (and the m_var_to_flip dtt_reward set).
C23_repair_failed_keeps_model ==
    status = "run" =>
        \A bv \in 1 .. Len(m_bool_vars) :
            atom(Cur, bv) # <<>> =>
                \A T \in repair_failed(Cur, true_lit(Cur, bv))
                          \cup repair_no_pivot(Cur, true_lit(Cur, bv)) :
                    /\ T.status = "run"
                    /\ same_model(Cur, T, bv)
                    /\ changed(Cur, T) = {}
                    /\ \A w \in 1 .. Len(m_bool_vars) :
                           w # bv => T.truth[w] = truth[w]

\* repair is entered as propagate_literal enters it (the literal is true, the
\* atom disagrees), no strategy succeeds, and the literal is flipped
C23_witness ==
    /\ status = "run"
    /\ \E bv \in 1 .. Len(m_bool_vars) :
          /\ atom(Cur, bv) # <<>>
          /\ ineq_is_true(atom(Cur, bv)[1]) = true_lit(Cur, bv).sign
          /\ \E T \in repair_failed(Cur, true_lit(Cur, bv)) :
                T.truth[bv] # truth[bv]

\* C24: every call update(v, n) terminates: from no variable table the
\* engine builds does the recursion of update (bound clamping, add and mul
\* propagation) go on for ever, contradictory bounds lo > hi included.
C24_update_terminates ==
    status = "run" =>
        \A v \in 1 .. Len(m_vars) : \A n \in Values :
            update(Cur, v, n, 1).S.status # "diverged"

\* the part of C24 that holds: update terminates on every variable whose
\* bounds admit a value (no lower bound above the upper bound)
C24_update_terminates_consistent ==
    status = "run" =>
        \A v \in 1 .. Len(m_vars) : \A n \in Values :
            (\A w \in 1 .. Len(m_vars) :
                (m_vars[w].m_lo # <<>> /\ m_vars[w].m_hi # <<>>) =>
                    m_vars[w].m_lo[1].value <= m_vars[w].m_hi[1].value) =>
                update(Cur, v, n, 1).S.status # "diverged"

\* variable w has no bound
unbounded(S, w) == S.m_vars[w].m_lo = <<>> /\ S.m_vars[w].m_hi = <<>>

\* the moves of repair_add's summand branch on ad whose summand (c, w) is
\* unbounded with c dividing sum - val
summand_moves(S, ad) ==
    { ms \in repair_add_moves(S, ad, ad.m_coeff + args_sum(S, ad.m_args, 1),
                              value(S, ad.m_var)) :
        /\ ms # <<>>
        /\ ms[1][1] # ad.m_var
        /\ unbounded(S, ms[1][1])
        /\ \A j \in 1 .. Len(ad.m_args) :
               ad.m_args[j][2] = ms[1][1] =>
                   divides(ad.m_args[j][1],
                           ad.m_coeff + args_sum(S, ad.m_args, 1)
                             - value(S, ad.m_var)) }

\* C25: when repair_add takes the summand branch on an add definition whose
\* result value val differs from the sum, and the chosen summand (c, w) is
\* unbounded with c dividing sum - val, then afterwards the definition holds
\* with the result unchanged: value(result) = val = k + sum of c_i * value(v_i).
C25_repair_add_summand ==
    status = "run" =>
        \A d \in 1 .. Len(m_adds) :
            \A ms \in summand_moves(Cur, m_adds[d]) :
                /\ update_all(Cur, ms, 1).S.status = "run"
                /\ value(update_all(Cur, ms, 1).S, m_adds[d].m_var)
                     = value(Cur, m_adds[d].m_var)
                /\ value(Cur, m_adds[d].m_var)
                     = m_adds[d].m_coeff
                       + args_sum(update_all(Cur, ms, 1).S, m_adds[d].m_args, 1)

C26_repair_mul1_distinct ==
    status = "run" =>
        \A d \in 1 .. Len(m_muls) :
            (/\ is_int(Cur, m_muls[d].m_var)
             /\ divides(m_muls[d].m_coeff, value(Cur, m_muls[d].m_var))
             /\ \A i, j \in 1 .. Len(m_muls[d].m_monomial) :
                    /\ unbounded(Cur, m_muls[d].m_monomial[i])
                    /\ i # j => m_muls[d].m_monomial[i] # m_muls[d].m_monomial[j]) =>
                \A o \in repair_mul1(Cur, m_muls[d]) :
                    (o.ret /\ o.S.status = "run") =>
                        /\ m_muls[d].m_coeff * monomial_prod(o.S, m_muls[d].m_monomial, 1)
                             = value(Cur, m_muls[d].m_var)
                        /\ value(o.S, m_muls[d].m_var) = value(Cur, m_muls[d].m_var)

\* the quotients n the factor-distribution branch of repair_mul can take
\* for md, other than 0
mul_quotients(S, md) ==
    ({div(value(S, md.m_var), md.m_coeff)}
        \cup (IF ~divides(md.m_coeff, value(S, md.m_var))
              THEN {div(value(S, md.m_var) + md.m_coeff - 1, md.m_coeff)}
              ELSE {})) \ {0}

RECURSIVE seq_product(_, _)
seq_product(q, j) == IF j > Len(q) THEN 1 ELSE q[j] * seq_product(q, j + 1)

\* C27: in repair_mul's factor-distribution branch (integer result,
\* value(result) # 0, n = value(result) / k), when every factor update
\* succeeds the values assigned to the factors multiply to n, sign included.
C27_repair_mul_factors_sign ==
    status = "run" =>
        \A d \in 1 .. Len(m_muls) :
            (is_int(Cur, m_muls[d].m_var) /\ value(Cur, m_muls[d].m_var) # 0) =>
                \A n \in mul_quotients(Cur, m_muls[d]) :
                    \A coeffs \in repair_mul_coeffs(Cur, m_muls[d],
                                                     factor(abs(n)).fs, n) :
                        update_all(Cur, [i \in 1 .. Len(coeffs) |->
                                    <<m_muls[d].m_monomial[i], coeffs[i]>>], 1).ret
                            => seq_product(coeffs, 1) = n

\* the part of C27 that holds: the assigned values multiply to n or to -n
C27_repair_mul_factors_abs ==
    status = "run" =>
        \A d \in 1 .. Len(m_muls) :
            (is_int(Cur, m_muls[d].m_var) /\ value(Cur, m_muls[d].m_var) # 0) =>
                \A n \in mul_quotients(Cur, m_muls[d]) :
                    \A coeffs \in repair_mul_coeffs(Cur, m_muls[d],
                                                     factor(abs(n)).fs, n) :
                        abs(seq_product(coeffs, 1)) = abs(n)

\* C28: dtt_reward(lit) on an atom with at least one argument stores in
\* m_var_to_flip a variable that occurs in the atom, and never a fixed
\* variable when the atom also has a variable that is not fixed, whatever
\* the random draw.
C28_dtt_reward_pivot ==
    status = "run" =>
        \A bv \in 1 .. Len(m_bool_vars) :
            (atom(Cur, bv) # <<>> /\ Len(atom(Cur, bv)[1].m_args) >= 1) =>
                \A T \in dtt_reward(Cur, bv) :
                    T.status = "run" =>
                        /\ atom(T, bv)[1].m_var_to_flip
                             \in atom_vars(atom(Cur, bv)[1])
                        /\ (\E w \in atom_vars(atom(Cur, bv)[1]) : ~is_fixed(Cur, w))
                             => ~is_fixed(Cur, atom(T, bv)[1].m_var_to_flip)

\* the part of C28 that holds: the stored variable occurs in the atom
C28_dtt_reward_pivot_in_atom ==
    status = "run" =>
        \A bv \in 1 .. Len(m_bool_vars) :
            (atom(Cur, bv) # <<>> /\ Len(atom(Cur, bv)[1].m_args) >= 1) =>
                \A T \in dtt_reward(Cur, bv) :
                    T.status = "run" =>
                        atom(T, bv)[1].m_var_to_flip \in atom_vars(atom(Cur, bv)[1])

\* C29: on_rescale() switches reward to dscore mode and the mode stays on:
\* a reward(lit) call made in dscore mode leaves the mode on (so that every
\* later reward call is answered by dscore_reward as well).
C29_dscore_mode_stays ==
    (status = "run" /\ m_dscore_mode) =>
        \A lit \in Literals : \A T \in reward(Cur, lit) : T.m_dscore_mode

\* the part of C29 that holds: in dscore mode reward is answered by
\* dscore_reward, and of the operations other than on_rescale only reward
\* changes the flag
C29_dscore_mode_flag ==
    [][/\ (status = "run" /\ m_dscore_mode) =>
             \A lit \in Literals : reward(Cur, lit) = dscore_reward(Cur, lit.var)
       /\ m_dscore_mode' # m_dscore_mode =>
             \/ OnRescale
             \/ \E lit \in Literals : Reward(lit)]_vars

\* T keeps the value and the bounds of every variable of S and the
\* m_args_value of every atom of S
model_kept(S, T) ==
    /\ Len(T.m_vars) >= Len(S.m_vars)
    /\ \A v \in 1 .. Len(S.m_vars) :
           /\ T.m_vars[v].m_value = S.m_vars[v].m_value
           /\ T.m_vars[v].m_lo = S.m_vars[v].m_lo
           /\ T.m_vars[v].m_hi = S.m_vars[v].m_hi
    /\ \A bv \in 1 .. Len(S.m_bool_vars) :
           atom(S, bv) # <<>> =>
               /\ atom(T, bv) # <<>>
               /\ atom(T, bv)[1].m_args_value = atom(S, bv)[1].m_args_value

\* C30: update is the single mutation point.  Once a variable or an atom is
\* created, register_term (creation of further terms and atoms) leaves its
\* value and its m_args_value as they are; dscore_reward, repair_literal,
\* on_restart and on_rescale leave every value, bound and m_args_value
\* unchanged; dtt_reward changes nothing but the m_var_to_flip of lit's atom.
\* (cm, cm_score, dscore, dtt, dts, compute_dts and is_sat return a value and
\* write no state.)
C30_update_single_mutation_point ==
    status = "run" =>
        /\ \A lit \in Literals : model_kept(Cur, repair_literal(Cur, lit))
        /\ model_kept(Cur, on_restart(Cur))
        /\ model_kept(Cur, on_rescale(Cur))
        /\ \A bv \in 1 .. Len(m_bool_vars) :
               /\ \A T \in dscore_reward(Cur, bv) : model_kept(Cur, T)
               /\ atom(Cur, bv) # <<>> =>
                      \A T \in dtt_reward(Cur, bv) :
                          with_var_to_flip([T EXCEPT !.status = "run"], bv,
                                           atom(Cur, bv)[1].m_var_to_flip) = Cur
        /\ \A j \in 1 .. Len(Problems[problem].terms) :
               ~is_registered(Problems[problem].terms[j]) =>
                   model_kept(Cur, register_term(Cur, Problems[problem].terms[j]))

\* values differ from 0, dtt_reward stores a new pivot, repair_literal flips
\* a literal, on_restart flips one and a term is still to be registered
C30_witness ==
    /\ status = "run"
    /\ \E v \in 1 .. Len(m_vars) : value(Cur, v) # 0
    /\ \E bv \in 1 .. Len(m_bool_vars) :
          /\ atom(Cur, bv) # <<>>
          /\ atom(Cur, bv)[1].m_args_value # 0
          /\ \E T \in dtt_reward(Cur, bv) : T.status = "run" /\ T # Cur
          /\ repair_literal(Cur, Lit(bv, FALSE)).truth # truth
    /\ on_restart(Cur).truth # truth
    /\ \E j \in 1 .. Len(Problems[problem].terms) :
          /\ ~is_registered(Problems[problem].terms[j])
          /\ register_term(Cur, Problems[problem].terms[j]) # Cur

\* the quotients n = div(val, coeff) and div(val + coeff - 1, coeff) that
\* repair_mul passes to factor(abs(n)) for md, 0 included
factor_inputs(S, md) ==
    {div(value(S, md.m_var), md.m_coeff)}
        \cup (IF ~divides(md.m_coeff, value(S, md.m_var))
              THEN {div(value(S, md.m_var) + md.m_coeff - 1, md.m_coeff)}
              ELSE {})

C31_repair_mul_terminates_nonzero ==
    status = "run" =>
        \A d \in 1 .. Len(m_muls) :
            /\ \A n \in 1 .. MaxNum : ~factor(n).loops
            /\ (0 \notin factor_inputs(Cur, m_muls[d])
                    \/ value(Cur, m_muls[d].m_var) = 0) =>
                   \A o \in repair_mul(Cur, m_muls[d]) : o.S.status # "diverged"

\* the atom of a dtt call, with its args_value
call_ineq ==
    [m_op |-> call.in.op, m_coeff |-> call.in.coeff,
     m_args_value |-> call.in.args]

\* C32: for every atom A and every args_value, dtt(false, args_value, A) and
\* dtt(true, args_value, A) are both >= 0 and exactly one of them is 0;
\* dtt(false, A) = 0 iff A.is_true() and dtt(true, A) = 0 iff not A.is_true().
C32_dtt_sign_exclusive ==
    (call.fn = "dtt" /\ call.pc = "done") =>
        LET other == dtt_num(~call.in.sign, call.in.args, call_ineq,
                             call.in.one)
        IN  /\ call.ret >= 0
            /\ other >= 0
            /\ (call.ret = 0) # (other = 0)
            /\ (call.ret = 0) <=> (call.in.sign # ineq_is_true(call_ineq))
            /\ (other = 0) <=> (call.in.sign = ineq_is_true(call_ineq))

\* dtt has returned at the boundary of <= (args_value + k = 0, atom
\* true) under sign = true, with a positive distance
C32_witness ==
    /\ call.fn = "dtt"
    /\ call.pc = "done"
    /\ call.in.op = "LE"
    /\ call.in.sign
    /\ call.in.args + call.in.coeff = 0
    /\ call.ret = call.in.one

MaxClause == 2

\* the clauses of at most MaxClause literals over the Boolean variables
ClauseLits ==
    UNION { [1 .. n -> Literals] : n \in 1 .. MaxClause }

\* the clause databases of one clause, with weight 1 or 2
ClauseDbs ==
    { <<[lits |-> cl, weight |-> w]>> : cl \in ClauseLits, w \in {1, 2} }

\* v is an argument of every atom of the clause
in_every_atom(S, cl, v) ==
    \A j \in 1 .. Len(cl) :
        atom(S, cl[j].var) # <<>> => v \in atom_vars(atom(S, cl[j].var)[1])

\* C33: a hypothetical move that changes nothing scores zero: for every
\* variable v and clause cl, dts(cl, v, value(v)) = compute_dts(cl), hence
\* dscore(v, value(v)) = 0, clauses with atoms in which v does not occur
\* included.
C33_null_move_scores_zero ==
    status = "run" =>
        \A v \in 1 .. Len(m_vars) :
            /\ \A cl \in ClauseLits :
                   dts(Cur, cl, v, value(Cur, v)) = compute_dts(Cur, cl)
            /\ \A db \in ClauseDbs :
                   dscore_clauses(Cur, db, v, value(Cur, v), 1) = 0

\* the part of C33 that holds: the two distances agree, and the clause adds
\* nothing to dscore, when v is an argument of every atom of the clause
C33_null_move_scores_zero_own_atoms ==
    status = "run" =>
        \A v \in 1 .. Len(m_vars) :
            /\ \A cl \in ClauseLits :
                   in_every_atom(Cur, cl, v) =>
                       dts(Cur, cl, v, value(Cur, v)) = compute_dts(Cur, cl)
            /\ \A db \in ClauseDbs :
                   in_every_atom(Cur, db[1].lits, v) =>
                       dscore_clauses(Cur, db, v, value(Cur, v), 1) = 0

\* a clause over an atom of v and a true atom without v gives the null move
\* of v a score other than zero
C33_null_move_scored ==
    /\ status = "run"
    /\ \E v \in 1 .. Len(m_vars) : \E db \in ClauseDbs :
           /\ \E j \in 1 .. Len(db[1].lits) :
                  /\ atom(Cur, db[1].lits[j].var) # <<>>
                  /\ v \in atom_vars(atom(Cur, db[1].lits[j].var)[1])
           /\ compute_dts(Cur, db[1].lits) = 0
           /\ dscore_clauses(Cur, db, v, value(Cur, v), 1) # 0


MaxBound == 1

\* the literal of sign sgn over the atom c*v + k op 0 is true when v is val
lit_true_at(op, sgn, c, k, val) ==
    sgn # ineq_is_true([m_op |-> op, m_coeff |-> k, m_args_value |-> c * val])

\* the state initialize(lit) leaves from S for the unit literal of sign sgn
\* over the atom c*v + k op 0
unit_bound(S, op, sgn, c, v, k) ==
    initialize_bound(S, Lit(1, sgn), unit_atom(S, op, c, v, k), c, v, k)

\* C34: bounds derived by initialize(lit) are sound: for every unit literal
\* over a single-variable atom c*v + k op 0 with c in {1, -1}, every value
\* of v that makes the literal true, and that the bounds v had before accept
\* (every value, when v had none), satisfies in_bounds(v, value) for the
\* bound recorded from that literal.
C34_initialize_bounds_sound ==
    status = "run" =>
        \A v \in 1 .. Len(m_vars) :
            \A op \in {"LE", "EQ", "LT"}, sgn \in BOOLEAN, c \in {1, -1} :
                \A k \in (-MaxBound) .. MaxBound :
                    LET S == unit_bound(Cur, op, sgn, c, v, k)
                    IN  \A val \in (-MaxBound - 1) .. (MaxBound + 1) :
                            (lit_true_at(op, sgn, c, k, val)
                                 /\ in_bounds(Cur, v, val)) =>
                                in_bounds(S, v, val)

\* initialize has recorded the strict bound of a unit literal over a real
\* variable, and the value of the variable makes the literal true
C34_witness ==
    /\ status = "run"
    /\ \E j \in 1 .. Len(Problems[problem].units) :
           LET lit == Problems[problem].units[j]
           IN  /\ atom(Cur, lit.var) # <<>>
               /\ Len(atom(Cur, lit.var)[1].m_args) = 1
               /\ atom(Cur, lit.var)[1].m_args[1][1] \in {1, -1}
               /\ lit.sign # ineq_is_true(atom(Cur, lit.var)[1])
               /\ LET v == atom(Cur, lit.var)[1].m_args[1][2]
                  IN  /\ m_vars[v].m_hi # <<>>
                      /\ m_vars[v].m_hi[1].is_strict
                      /\ m_vars[v].m_hi[1].value = -atom(Cur, lit.var)[1].m_coeff
                      /\ in_bounds(Cur, v, value(Cur, v))


\* every value in_bounds(v, .) accepts in T is accepted in S
accepts_no_more(S, T, v, vals) ==
    \A val \in vals : in_bounds(T, v, val) => in_bounds(S, v, val)

\* C35: bounds only tighten: across the add_le, add_ge, add_lt and add_gt
\* calls initialize makes, the set of values in_bounds(v, .) accepts never
\* grows, for integer and real variables.
C35_bounds_only_tighten ==
    status = "run" =>
        \A v \in 1 .. Len(m_vars) :
            \A op \in {"LE", "EQ", "LT"}, sgn \in BOOLEAN, c \in {1, -1} :
                \A k \in (-MaxCoeff) .. MaxCoeff :
                    accepts_no_more(Cur, unit_bound(Cur, op, sgn, c, v, k), v,
                                    (-MaxCoeff - 1) .. (MaxCoeff + 1))

\* the part of C35 that holds: the bounds of an integer variable only
\* tighten, and so do those of a real variable under add_le and add_ge
C35_bounds_only_tighten_int ==
    status = "run" =>
        \A v \in 1 .. Len(m_vars) :
            \A op \in {"LE", "EQ", "LT"}, sgn \in BOOLEAN, c \in {1, -1} :
                \A k \in (-MaxBound) .. MaxBound :
                    (is_int(Cur, v) \/ op # "LT" \/ sgn) =>
                        accepts_no_more(Cur,
                                        unit_bound(Cur, op, sgn, c, v, k), v,
                                        (-MaxVal - 1) .. (MaxVal + 1))


\* the variables that are within their bounds in S are within them in T
stay_within(S, T) ==
    \A w \in 1 .. Len(S.m_vars) : within_bounds(S, w) => within_bounds(T, w)

\* C36: update never moves a variable out of its bounds: a variable w (v
\* itself or one reached by propagation) whose value is within its bounds
\* before update(v, n) has its value within its bounds after the call, the
\* bounds being the same.
C36_update_stays_in_bounds ==
    status = "run" =>
        \A v \in 1 .. Len(m_vars) :
            \A n \in (-MaxVal - 1) .. (MaxVal + 1) :
                LET r == update(Cur, v, n, 1)
                IN  /\ stay_within(Cur, r.S)
                    /\ \A w \in 1 .. Len(m_vars) :
                           /\ r.S.m_vars[w].m_lo = m_vars[w].m_lo
                           /\ r.S.m_vars[w].m_hi = m_vars[w].m_hi

\* an update of v has changed, by propagation, the value of another variable
\* that has a bound, and an update of a variable with a bound towards a value
\* outside the bound has changed its value
C36_witness ==
    /\ status = "run"
    /\ \E v \in 1 .. Len(m_vars) : \E n \in (-MaxVal - 1) .. (MaxVal + 1) :
           \E w \in 1 .. Len(m_vars) :
               /\ w # v
               /\ ~unbounded(Cur, w)
               /\ within_bounds(Cur, w)
               /\ update(Cur, v, n, 1).ret
               /\ value(update(Cur, v, n, 1).S, w) # value(Cur, w)
    /\ \E v \in 1 .. Len(m_vars) : \E n \in (-MaxVal - 1) .. (MaxVal + 1) :
           /\ within_bounds(Cur, v)
           /\ ~in_bounds(Cur, v, n)
           /\ value(update(Cur, v, n, 1).S, v) # value(Cur, v)


\* the controller's truth of bv is the truth of its atom, when it has one
truth_agrees(S, bv) ==
    atom(S, bv) # <<>> => (S.truth[bv] = ineq_is_true(atom(S, bv)[1]))

\* C37: repair_literal and on_restart re-establish the agreement of the
\* Boolean and the arithmetic state without touching numeric state: after
\* repair_literal(lit) the controller's truth of lit.var() equals its atom's
\* is_true(); after on_restart() this holds for every Boolean variable that
\* has an atom, so the VERIFY of check_ineqs does not fail; neither
\* operation changes a variable value or an args_value.
C37_truth_reestablished ==
    status = "run" =>
        /\ \A lit \in Literals :
               /\ truth_agrees(repair_literal(Cur, lit), lit.var)
               /\ model_kept(Cur, repair_literal(Cur, lit))
               /\ repair_literal(Cur, lit).status = "run"
        /\ \A bv \in 1 .. NumBoolVars : truth_agrees(on_restart(Cur), bv)
        /\ check_ineqs_ok(on_restart_loop(Cur, 1))
        /\ on_restart(Cur).status = "run"
        /\ model_kept(Cur, on_restart(Cur))

\* the controller's truth of a Boolean variable disagrees with its atom, and
\* repair_literal and on_restart each flip it
C37_witness ==
    /\ status = "run"
    /\ \E bv \in 1 .. NumBoolVars :
           /\ atom(Cur, bv) # <<>>
           /\ truth[bv] # ineq_is_true(atom(Cur, bv)[1])
           /\ repair_literal(Cur, Lit(bv, TRUE)).truth[bv] # truth[bv]
           /\ on_restart(Cur).truth[bv] # truth[bv]


====
